---- MODULE Spec2Model ----
(***************************************************************************)
(* DevStream: the automation trigger engine, the notification gate, the    *)
(* focus-session command, the file watcher, the git poller, the build-file *)
(* classifier and the insights aggregator, modelled from the TypeScript    *)
(* sources.                                                                *)
(*                                                                         *)
(* The event broker (@env/env-event-stream) is an external package: it is  *)
(* modelled by its interface only (subscribe keeps a handler, publish      *)
(* hands the event to every handler subscribed to the topic).              *)
(***************************************************************************)
EXTENDS Integers, Sequences, FiniteSets, TLC

VARIABLES
  configFile,    \* contents of CONFIG_FILE: automations and notification.*
  subs,          \* automation subscriptions held by the broker, in subscribe order
  invs,          \* one record per delivery of an event to an automation handler
  evCount,       \* number of externally produced events published so far
  createCount,   \* number of commandCreateAutomation runs so far
  setupDone,     \* TRUE once main's setupAutomations pass has run
  gateUp,        \* TRUE once setupNotifications has subscribed the gate
  gateConfig,    \* the config object setupNotifications parsed and keeps
  inFocusMode,   \* the gate's focus flag
  now,           \* wall clock: [h, m] as Date.getHours / getMinutes give them
  gateInbox,     \* events published to the gate's topics and not yet handled
  gateLast,      \* the last notification the gate handled and what it did
  lastFocus,     \* state of the last focus-state event the gate handled
  pubCount,      \* notification / focus-state events published by other components
  silentResult,  \* the last value isInSilentHours returned, and for which time
  togglePc,      \* commandToggleFocus: "idle", or "prompt" while Input.prompt is awaited
  toggleCount,   \* number of commandToggleFocus runs so far
  timers,        \* scheduled focus-end timeouts that have not fired yet
  focusStarted,  \* focus.started events commandToggleFocus has published
  focusEnded,    \* focus.ended events commandToggleFocus and its timeouts have published
  focusLog,      \* types of the focus-state events published, in publish order
  watchResolved, \* TRUE once the promise watchFiles returns has resolved
  watchStatus,   \* per watched root: "scanning", "watching" or "stopped"
  fileMap,       \* per watched root: watchDir's snapshot, path -> [mtime, size]
  watchLast,     \* the last scan or raw notification of a watch loop and what it did
  watchPrev,     \* the raw notification handled before watchLast
  watchLog,      \* one watch loop: notifications read so far, events published in order
  ignorePaths,   \* the ignore list main passed to watchFiles
  gitStatus,     \* "off", "notrepo" (watchGit returned early) or "polling"
  lastBranch,    \* checkGitStatus: branch carried into the next tick
  lastCommitHash, \* checkGitStatus: hash carried into the next tick
  gitTimers,     \* scheduled checkGitStatus timeouts that have not fired yet
  gitLast,       \* watchGit's initial queries, then the last tick: what it started from, observed and published
  gitTicks,      \* parity of the number of ticks run
  watchBuildsFrom, \* which watchBuilds ran (main.ts or config/watchers.ts) and what it read
  classifier,    \* what watchBuilds destructured from preprocessBuildConfig
  buildLast,     \* the last file-change event published and what the classifier did
  insightsStatus, \* setupInsights: "off" (not run), "disabled" (returned early) or "collecting"
  insightsData,  \* the insightsData object of setupInsights
  insightsTimers, \* setInterval timers setupInsights has started
  insightsLast,  \* the last event published to, or hourly check made by, the aggregator
  insightsCount, \* number of activity events published so far
  hoursPassed,   \* hours of wall-clock time passed since setupInsights
  weekday,       \* wall clock: the day of the week
  fileSeen,      \* file-change events the aggregator took since setupInsights or the last summary
  configure      \* commandConfigure: runs so far, and the config it loaded while it prompts

autoVars == <<subs, invs, evCount, createCount, setupDone>>
gateState == <<gateUp, gateConfig, inFocusMode, gateLast, lastFocus>>
clockVars == <<now, silentResult>>
focusVars == <<togglePc, toggleCount, timers, focusStarted, focusEnded, focusLog>>
watchVars == <<watchResolved, watchStatus, fileMap, watchLast, watchPrev, watchLog,
               ignorePaths>>
gitVars == <<gitStatus, lastBranch, lastCommitHash, gitTimers, gitLast, gitTicks>>
buildVars == <<watchBuildsFrom, classifier, buildLast>>
insightsVars == <<insightsStatus, insightsData, insightsTimers, insightsLast,
                  insightsCount, hoursPassed, weekday, fileSeen>>
producerVars == <<watchVars, gitVars, buildVars>>
consumerVars == <<configFile, autoVars, gateState, gateInbox, pubCount, clockVars, focusVars>>
vars == <<configFile, subs, invs, evCount, createCount, setupDone, gateUp,
          gateConfig, inFocusMode, now, gateInbox, gateLast, lastFocus, pubCount,
          silentResult, togglePc, toggleCount, timers, focusStarted, focusEnded,
          focusLog, watchResolved, watchStatus, fileMap, watchLast, watchPrev, watchLog,
          ignorePaths, gitStatus, lastBranch, lastCommitHash, gitTimers, gitLast,
          gitTicks, watchBuildsFrom, classifier, buildLast, insightsStatus,
          insightsData, insightsTimers, insightsLast, insightsCount, hoursPassed,
          weekday, fileSeen, configure>>

\* Nothing handled yet (a watcher, the poller or the classifier).
NothingYet == [kind |-> "none"]

\* No notification read and no event published by the watch loop.
EmptyLog == [seen |-> 0, published |-> <<>>]

\* watchFiles, watchGit and watchBuilds have not run.
WatcherIdle ==
  /\ watchResolved = FALSE /\ watchStatus = <<>> /\ fileMap = <<>>
  /\ watchLast = NothingYet /\ watchPrev = NothingYet /\ ignorePaths = <<>>
  /\ watchLog = EmptyLog

GitIdle ==
  /\ gitStatus = "off" /\ lastBranch = "" /\ lastCommitHash = ""
  /\ gitTimers = 0 /\ gitLast = NothingYet /\ gitTicks = 0

BuildsIdle ==
  /\ watchBuildsFrom = NothingYet /\ classifier = NothingYet /\ buildLast = NothingYet

ProducersIdle == WatcherIdle /\ GitIdle /\ BuildsIdle

\* The insightsData object as setupInsights creates it. The maps are kept as
\* sequences of [key, count] in insertion order, as a Map iterates.
EmptyInsights ==
  [fileChanges |-> [byExtension |-> <<>>, byHour |-> <<>>, byDay |-> <<>>],
   focus |-> [sessions |-> <<>>, totalDuration |-> 0],
   git |-> [commits |-> 0, pushes |-> 0, pulls |-> 0]]

\* setupInsights has not run.
InsightsIdle ==
  /\ insightsStatus = "off" /\ insightsData = EmptyInsights /\ insightsTimers = 0
  /\ insightsLast = NothingYet /\ insightsCount = 0 /\ hoursPassed = 0
  /\ weekday = "Monday" /\ fileSeen = 0

\* commandConfigure has not run.
ConfigureIdle == configure = [pc |-> "idle", runs |-> 0]

(***************************************************************************)
(* Bounds of the model.                                                    *)
(***************************************************************************)
MaxEvents == 2      \* externally produced events
MaxCreate == 1      \* runs of commandCreateAutomation
MaxInvs == 3        \* handler invocations kept in the model
MaxPublished == 2   \* notification and focus-state events from other components
MaxToggles == 3     \* runs of commandToggleFocus
MaxActivity == 3    \* activity events published while the aggregator is modelled
MaxHours == 3       \* hours of wall-clock time after setupInsights
MaxNotifications == 3  \* raw notifications whose events the log of a watch loop keeps
MaxConfigure == 1   \* runs of commandConfigure
MaxChain == 4       \* handler invocations kept once derived events trigger automations

(***************************************************************************)
(* Strings.                                                                *)
(***************************************************************************)
\* String.prototype.includes
Includes(s, sub) ==
  \E i \in 1..(Len(s) - Len(sub) + 1) : SubSeq(s, i, i + Len(sub) - 1) = sub

UpperLetters == "ABCDEFGHIJKLMNOPQRSTUVWXYZ"
LowerLetters == "abcdefghijklmnopqrstuvwxyz"

CharAt(s, i) == SubSeq(s, i, i)

LowerChar(c) ==
  IF \E i \in 1..26 : CharAt(UpperLetters, i) = c
    THEN CharAt(LowerLetters, CHOOSE i \in 1..26 : CharAt(UpperLetters, i) = c)
    ELSE c

\* String.prototype.toLowerCase
RECURSIVE ToLowerCase(_)
ToLowerCase(s) ==
  IF Len(s) = 0 THEN ""
  ELSE IF Len(s) = 1 THEN LowerChar(s)
  ELSE LET half == Len(s) \div 2
       IN ToLowerCase(SubSeq(s, 1, half)) \o ToLowerCase(SubSeq(s, half + 1, Len(s)))

\* String.prototype.split with a one-character separator
RECURSIVE Split(_, _)
Split(s, sep) ==
  LET at == { i \in 1..Len(s) : CharAt(s, i) = sep }
  IN IF at = {} THEN << s >>
     ELSE LET i == CHOOSE x \in at : \A y \in at : x <= y
          IN << SubSeq(s, 1, i - 1) >> \o Split(SubSeq(s, i + 1, Len(s)), sep)

Digits == "0123456789"
IsDigit(c) == \E d \in 1..10 : CharAt(Digits, d) = c
DigitValue(c) == (CHOOSE d \in 1..10 : CharAt(Digits, d) = c) - 1

\* parseInt yields NaN when the string does not start with a digit.
NaN == -1

\* parseInt on an unsigned decimal string: the leading digits, read left to right.
RECURSIVE ParseDigits(_, _)
ParseDigits(s, acc) ==
  IF Len(s) = 0 \/ ~IsDigit(CharAt(s, 1)) THEN acc
  ELSE ParseDigits(SubSeq(s, 2, Len(s)), acc * 10 + DigitValue(CharAt(s, 1)))

ParseInt(s) ==
  IF Len(s) = 0 \/ ~IsDigit(CharAt(s, 1)) THEN NaN ELSE ParseDigits(s, 0)

Digit(d) ==
  CASE d = 0 -> "0" [] d = 1 -> "1" [] d = 2 -> "2" [] d = 3 -> "3" [] d = 4 -> "4"
    [] d = 5 -> "5" [] d = 6 -> "6" [] d = 7 -> "7" [] d = 8 -> "8" [] d = 9 -> "9"

\* JSON.stringify of a non-negative integer
RECURSIVE NumStr(_)
NumStr(n) == IF n < 10 THEN Digit(n) ELSE NumStr(n \div 10) \o Digit(n % 10)

\* JSON.stringify(event.payload) for a FileChangeEvent payload; the keys come
\* in the order watchDir builds the object, size is absent on delete.
JSONStringify(p) ==
  "{\"path\":\"" \o p.path \o "\",\"operation\":\"" \o p.operation
    \o "\",\"extension\":\"" \o p.extension \o "\""
    \o (IF p.operation = "delete" THEN "" ELSE ",\"size\":" \o NumStr(p.size))
    \o "}"

(***************************************************************************)
(* Configuration and inputs.                                               *)
(***************************************************************************)
\* An optional string that is undefined or "" is falsy in the handler's tests.
Undefined == ""

Automation(name, topic, eventType, condition, type, command) ==
  [name |-> name, topic |-> topic, eventType |-> eventType,
   condition |-> condition, type |-> type, command |-> command]

FmtOnTest == Automation("fmt", "file.changes", "file.modify", "test", "command", "deno fmt")
LogAll    == Automation("log", "file.changes", Undefined, Undefined, "command", "logger  hit")
Hook      == Automation("hook", "file.changes", "file.create", Undefined, "webhook", "")
OnCommit  == Automation("ci", "git.events", Undefined, Undefined, "command", "make")

InitialAutomations == { <<>>, <<FmtOnTest>>, <<Hook>>, <<LogAll, OnCommit>> }

\* DEFAULT_CONFIG, the fields the model reads.
DefaultConfig ==
  [automations |-> <<>>,
   focusMode |-> FALSE,
   silentHours |-> [start |-> "22:00", end |-> "08:00"],
   priorityPatterns |-> <<"test failure", "build failure", "security", "deadline">>,
   insights |-> [collectStats |-> TRUE, dailySummary |-> TRUE]]

\* What the prompts of commandCreateAutomation can return.
PromptNames      == {"new"}
PromptTopics     == {"file.changes"}
PromptEventTypes == {"", "file.modify"}
PromptConditions == {"test"}
PromptCommands   == {"deno lint"}

FilePayload(path, operation, extension, size) ==
  [path |-> path, operation |-> operation, extension |-> extension, size |-> size]

ExternalEvents ==
  { [topic |-> "file.changes", type |-> "file." \o op,
     payload |-> FilePayload(path, op, "ts", 7)] :
       op \in {"create", "modify"}, path \in {"/p/a.ts", "/p/test.ts"} }

\* How a spawned command can end: exit 0, exit non-zero with text on stderr,
\* or Deno.Command / output() throwing (program missing, no permission).
CommandResults ==
  { [kind |-> "exit0", text |-> ""],
    [kind |-> "nonzero", text |-> "lint failed"],
    [kind |-> "throws", text |-> "NotFound"] }

(***************************************************************************)
(* The broker, by its interface: publish(topic, type, payload) hands the   *)
(* event to every handler subscribed to the topic.                         *)
(***************************************************************************)
Event(id, topic, type, payload) ==
  [id |-> id, topic |-> topic, type |-> type, payload |-> payload]

NoResult == [kind |-> "none", text |-> ""]

\* No command was spawned.
NotSpawned == [spawned |-> FALSE, program |-> "", args |-> <<>>]

\* const cmd = automation.action.command.split(" "); the program is cmd[0]
\* and the arguments are cmd.slice(1).
CommandLine(command) ==
  LET cmd == Split(command, " ")
  IN [spawned |-> TRUE, program |-> cmd[1], args |-> Tail(cmd)]

\* The gate has handled no notification yet / isInSilentHours was not called yet.
NoneHandled == [kind |-> "none"]
NotChecked == [kind |-> "none"]

\* The deliveries of ev to the automation handlers theSubs[i], i >= from.
RECURSIVE DeliverTo(_, _, _)
DeliverTo(ev, theSubs, from) ==
  IF from > Len(theSubs) THEN <<>>
  ELSE (IF theSubs[from].topic = ev.topic
          THEN << [sub |-> from, ev |-> ev, pc |-> "pending",
                   result |-> NoResult, emitted |-> <<>>, spawn |-> NotSpawned] >>
          ELSE <<>>)
       \o DeliverTo(ev, theSubs, from + 1)

\* The deliveries of a sequence of published events, in publish order.
RECURSIVE Publish(_, _)
Publish(evs, theSubs) ==
  IF evs = <<>> THEN <<>>
  ELSE DeliverTo(Head(evs), theSubs, 1) \o Publish(Tail(evs), theSubs)

\* The published events the gate's two subscriptions receive, in publish order.
GateDeliveries(evs, up) ==
  IF up THEN SelectSeq(evs, LAMBDA e : e.topic \in {"notification", "focus.state"})
        ELSE <<>>

(***************************************************************************)
(* setupAutomations                                                        *)
(***************************************************************************)
\* The for loop: one broker.subscribe per automation read from the file;
\* the subscriptions the broker already holds are left in place.
SubscribeAll(theSubs, automations) == theSubs \o automations

\* main's setup pass.
SetupAutomations ==
  /\ ~setupDone
  /\ subs' = SubscribeAll(subs, configFile.automations)
  /\ setupDone' = TRUE
  /\ UNCHANGED <<configFile, invs, evCount, createCount>>
  /\ UNCHANGED <<gateState, gateInbox, pubCount, clockVars, focusVars, producerVars, insightsVars, configure>>

\* PassesFilters with the condition test left out.
PassesFiltersTypeOnly(a, ev) ==
  ~(a.eventType # Undefined /\ ev.type # a.eventType)

\* The two early returns of the handler: event type, then condition.
PassesFilters(a, ev) ==
  IF a.eventType # Undefined /\ ev.type # a.eventType
    THEN FALSE
    ELSE IF a.condition # Undefined
           THEN Includes(JSONStringify(ev.payload), a.condition)
           ELSE TRUE

WorkflowPayload(a, ev, status) ==
  [name |-> a.name, trigger |-> ev.type, action |-> a.type, status |-> status]

StartedEvent(a, ev) ==
  Event(0, "workflow.automation", "workflow.started", WorkflowPayload(a, ev, "started"))

SuccessNotification(a) ==
  Event(0, "notification", "notification.automation",
        [level |-> "success",
         message |-> "Automation \"" \o a.name \o "\" completed successfully",
         source |-> "Automation", actionable |-> FALSE])

CompletedEvent(a, ev) ==
  Event(0, "workflow.automation", "workflow.completed", WorkflowPayload(a, ev, "completed"))

FailureNotification(a, message) ==
  Event(0, "notification", "notification.automation",
        [level |-> "error",
         message |-> "Automation \"" \o a.name \o "\" failed: " \o message,
         source |-> "Automation", actionable |-> TRUE,
         actions |-> <<"View logs", "Edit automation">>])

FailedEvent(a, ev, message) ==
  Event(0, "workflow.automation", "workflow.failed",
        [name |-> a.name, trigger |-> ev.type, action |-> a.type,
         status |-> "failed", error |-> message])

\* AfterCommand without the test of `success`: any exit status is a success.
AfterCommandIgnoresExit(a, ev, r) ==
  IF r.kind # "throws"
    THEN << SuccessNotification(a), CompletedEvent(a, ev) >>
    ELSE << FailureNotification(a, r.text), FailedEvent(a, ev, r.text) >>

\* AfterCommand with the two publishes of the try block in the other order.
AfterCommandCompletesFirst(a, ev, r) ==
  IF r.kind = "exit0"
    THEN << CompletedEvent(a, ev), SuccessNotification(a) >>
    ELSE << FailureNotification(a, r.text), FailedEvent(a, ev, r.text) >>

\* AfterCommand with the spawn outside the try block: a throw leaves the handler.
AfterCommandUncaught(a, ev, r) ==
  IF r.kind = "exit0"
    THEN << SuccessNotification(a), CompletedEvent(a, ev) >>
    ELSE IF r.kind = "throws" THEN <<>>
    ELSE << FailureNotification(a, r.text), FailedEvent(a, ev, r.text) >>

\* What the handler publishes once command.output() has settled with r:
\* the rest of the try block, or the catch block.
AfterCommand(a, ev, r) ==
  IF r.kind = "exit0"
    THEN << SuccessNotification(a), CompletedEvent(a, ev) >>
    ELSE << FailureNotification(a, r.text), FailedEvent(a, ev, r.text) >>

\* The handler is entered with a delivered event: filters, workflow.started,
\* then the command is spawned (action type "command") or the try block is
\* left at once (any other action type).
AutomationTrigger(k) ==
  /\ invs[k].pc = "pending"
  /\ \A j \in 1..(k - 1) : invs[j].pc # "pending"   \* handlers are entered in delivery order
  /\ LET a  == subs[invs[k].sub]
         ev == invs[k].ev
     IN IF ~PassesFilters(a, ev)
          THEN invs' = [invs EXCEPT ![k].pc = "skipped"]
          ELSE invs' = [invs EXCEPT ![k].pc = IF a.type = "command" THEN "running" ELSE "done",
                                    ![k].emitted = << StartedEvent(a, ev) >>,
                                    ![k].spawn = IF a.type = "command"
                                                   THEN CommandLine(a.command)
                                                   ELSE NotSpawned]
                       \o Publish(<< StartedEvent(a, ev) >>, subs)
  /\ Len(invs') <= MaxChain
  /\ UNCHANGED <<configFile, subs, evCount, createCount, setupDone>>
  /\ UNCHANGED <<gateState, gateInbox, pubCount, clockVars, focusVars, producerVars, insightsVars, configure>>

\* await command.output() settles; the handler runs to its end.
AutomationCommandEnds(k) ==
  /\ invs[k].pc = "running"
  /\ \E r \in CommandResults :
       LET a   == subs[invs[k].sub]
           out == AfterCommand(a, invs[k].ev, r)
       IN /\ invs' = [invs EXCEPT ![k].pc = "done", ![k].result = r,
                                  ![k].emitted = @ \o out]
                     \o Publish(out, subs)
          /\ Len(invs') <= MaxChain
          /\ gateInbox' = gateInbox \o GateDeliveries(out, gateUp)
  /\ UNCHANGED <<configFile, subs, evCount, createCount, setupDone>>
  /\ UNCHANGED <<gateState, pubCount, clockVars, focusVars, producerVars, insightsVars, configure>>

(***************************************************************************)
(* commandCreateAutomation                                                 *)
(***************************************************************************)
CommandCreateAutomation ==
  /\ setupDone
  /\ createCount < MaxCreate
  /\ \E name \in PromptNames, topic \in PromptTopics, eventType \in PromptEventTypes,
        condition \in PromptConditions, command \in PromptCommands :
       LET automation == Automation(name, topic, eventType, condition, "command", command)
           saved == [configFile EXCEPT !.automations = Append(@, automation)]
       IN /\ configFile' = saved
          /\ subs' = SubscribeAll(subs, saved.automations)
  /\ createCount' = createCount + 1
  /\ UNCHANGED <<invs, evCount, setupDone>>
  /\ UNCHANGED <<gateState, gateInbox, pubCount, clockVars, focusVars, producerVars, insightsVars, configure>>

(***************************************************************************)
(* Producers: a watcher or the git poller publishes an event.              *)
(***************************************************************************)
PublishExternal ==
  /\ evCount < MaxEvents
  /\ \E e \in ExternalEvents :
       /\ invs' = invs \o DeliverTo(Event(evCount + 1, e.topic, e.type, e.payload), subs, 1)
       /\ Len(invs') <= MaxInvs
  /\ evCount' = evCount + 1
  /\ UNCHANGED <<configFile, subs, createCount, setupDone>>
  /\ UNCHANGED <<gateState, gateInbox, pubCount, clockVars, focusVars, producerVars, insightsVars, configure>>

(***************************************************************************)
(* The automation engine.                                                  *)
(***************************************************************************)
InitAuto ==
  /\ configFile \in { [DefaultConfig EXCEPT !.automations = a] : a \in InitialAutomations }
  /\ subs = <<>>
  /\ invs = <<>>
  /\ evCount = 0
  /\ createCount = 0
  /\ setupDone = FALSE
  /\ gateUp = FALSE
  /\ gateConfig = DefaultConfig
  /\ inFocusMode = FALSE
  /\ now = [h |-> 12, m |-> 0]
  /\ gateInbox = <<>>
  /\ gateLast = NoneHandled
  /\ lastFocus = "none"
  /\ pubCount = 0
  /\ silentResult = NotChecked
  /\ togglePc = "idle"
  /\ toggleCount = 0
  /\ timers = 0
  /\ focusStarted = 0
  /\ focusEnded = 0
  /\ focusLog = <<>>
  /\ ProducersIdle
  /\ InsightsIdle
  /\ ConfigureIdle

NextAuto ==
  \/ SetupAutomations
  \/ CommandCreateAutomation
  \/ PublishExternal
  \/ \E k \in DOMAIN invs : AutomationTrigger(k)
  \/ \E k \in DOMAIN invs : AutomationCommandEnds(k)

SpecAuto == InitAuto /\ [][NextAuto]_vars

(***************************************************************************)
(* Properties of the automation engine.                                    *)
(***************************************************************************)
AutoOf(k) == subs[invs[k].sub]

\* The places in what invocation k published that hold an event of this type.
EmittedOfType(k, type) ==
  { i \in DOMAIN invs[k].emitted : invs[k].emitted[i].type = type }

EmittedOnTopic(k, topic) ==
  { i \in DOMAIN invs[k].emitted : invs[k].emitted[i].topic = topic }

Started(k)   == Cardinality(EmittedOfType(k, "workflow.started"))
Completed(k) == Cardinality(EmittedOfType(k, "workflow.completed"))
Failed(k)    == Cardinality(EmittedOfType(k, "workflow.failed"))

\* The handler of invocation k has returned after publishing workflow.started.
Returned(k) == invs[k].pc = "done"

\* C1: every invocation that published workflow.started and whose handler has
\* returned has published exactly one terminal event, workflow.completed or
\* workflow.failed, whatever the action type and the command's outcome.
C1_ExactlyOneTerminal ==
  \A k \in DOMAIN invs :
    Returned(k) => Started(k) = 1 /\ Completed(k) + Failed(k) = 1

Occurrences(seq, x) == Cardinality({ i \in DOMAIN seq : seq[i] = x })

\* C2: once setup has run, and after every re-run by commandCreateAutomation,
\* each configured automation holds exactly one subscription, and an event
\* starts it at most once.
C2_OneSubscriptionPerAutomation ==
  setupDone =>
    /\ \A i \in DOMAIN configFile.automations :
         Occurrences(subs, configFile.automations[i])
           = Occurrences(configFile.automations, configFile.automations[i])
    /\ \A k \in DOMAIN invs :
         Cardinality({ j \in DOMAIN invs :
                         /\ invs[j].ev.id = invs[k].ev.id
                         /\ AutoOf(j) = AutoOf(k)
                         /\ Started(j) = 1 })
           <= Occurrences(configFile.automations, AutoOf(k))

\* The firing condition as the specification words it.
ShouldFire(a, ev) ==
  /\ (a.eventType = Undefined \/ a.eventType = ev.type)
  /\ (a.condition = Undefined \/ Includes(JSONStringify(ev.payload), a.condition))

Handled(k) == invs[k].pc # "pending"
Fired(k) == Handled(k) /\ invs[k].pc # "skipped"

\* C3: a handled delivery fired (published workflow.started and, for a command
\* action, spawned the command) iff the event-type filter and the condition
\* both pass; eventType file.modify with condition test fires neither on
\* file.create nor on a file.modify whose serialized payload lacks "test".
C3_FiresIffFiltersPass ==
  \A k \in DOMAIN invs :
    Handled(k) =>
      /\ Fired(k) <=> ShouldFire(AutoOf(k), invs[k].ev)
      /\ Fired(k) <=> Started(k) = 1
      /\ (Fired(k) /\ AutoOf(k).type = "command") => invs[k].pc \in {"running", "done"}
      /\ (AutoOf(k).eventType = "file.modify" /\ AutoOf(k).condition = "test") =>
           /\ invs[k].ev.type = "file.create" => ~Fired(k)
           /\ (/\ invs[k].ev.type = "file.modify"
               /\ ~Includes(JSONStringify(invs[k].ev.payload), "test")) => ~Fired(k)

C3_Witness ==
  \E k, j \in DOMAIN invs :
    /\ AutoOf(k) = FmtOnTest /\ AutoOf(j) = FmtOnTest
    /\ invs[k].ev.type = "file.modify" /\ invs[k].pc = "skipped"
    /\ invs[j].ev.type = "file.modify" /\ invs[j].pc = "done"

Notifications(k) == EmittedOnTopic(k, "notification")

\* C4: a command that exits non-zero yields exactly one notification, of level
\* error, actionable, with actions View logs and Edit automation, and exactly
\* one workflow.failed carrying the captured stderr text; no success
\* notification and no workflow.completed.
C4_NonZeroExitReportsFailure ==
  \A k \in DOMAIN invs :
    (Returned(k) /\ invs[k].result.kind = "nonzero") =>
      /\ Cardinality(Notifications(k)) = 1
      /\ \A i \in Notifications(k) :
           /\ invs[k].emitted[i].payload.level = "error"
           /\ invs[k].emitted[i].payload.actionable = TRUE
           /\ invs[k].emitted[i].payload.actions = <<"View logs", "Edit automation">>
      /\ Failed(k) = 1
      /\ \A i \in EmittedOfType(k, "workflow.failed") :
           /\ invs[k].emitted[i].payload.status = "failed"
           /\ invs[k].emitted[i].payload.error = invs[k].result.text
      /\ Completed(k) = 0

C4_Witness ==
  \E k \in DOMAIN invs :
    /\ Returned(k) /\ invs[k].result = [kind |-> "nonzero", text |-> "lint failed"]
    /\ Failed(k) = 1

\* C5: a command that exits with status zero yields exactly one notification,
\* of level success and not actionable, then exactly one workflow.completed;
\* no error notification and no workflow.failed.
C5_ZeroExitReportsSuccess ==
  \A k \in DOMAIN invs :
    (Returned(k) /\ invs[k].result.kind = "exit0") =>
      /\ Cardinality(Notifications(k)) = 1
      /\ \A i \in Notifications(k) :
           /\ invs[k].emitted[i].payload.level = "success"
           /\ invs[k].emitted[i].payload.actionable = FALSE
      /\ Completed(k) = 1
      /\ \A i \in Notifications(k), j \in EmittedOfType(k, "workflow.completed") :
           /\ i < j
           /\ invs[k].emitted[j].payload.status = "completed"
      /\ Failed(k) = 0

C5_Witness ==
  \E k \in DOMAIN invs :
    Returned(k) /\ invs[k].result.kind = "exit0" /\ Completed(k) = 1

\* C6: a command that cannot be spawned is reported as one workflow.failed of
\* that invocation; the subscription stays, every delivery can still be
\* handled, and each other invocation ends by its own command's result.
C6_CrashIsContained ==
  /\ \A k \in DOMAIN invs :
       /\ invs[k].sub \in DOMAIN subs
       /\ (Returned(k) /\ invs[k].result.kind = "throws") =>
            Started(k) = 1 /\ Failed(k) = 1 /\ Completed(k) = 0
       /\ (Returned(k) /\ invs[k].result.kind = "exit0") =>
            Started(k) = 1 /\ Failed(k) = 0 /\ Completed(k) = 1
       /\ (Returned(k) /\ invs[k].result.kind = "nonzero") =>
            Started(k) = 1 /\ Failed(k) = 1 /\ Completed(k) = 0
       /\ invs[k].pc = "running" => ENABLED AutomationCommandEnds(k)
  /\ (\E k \in DOMAIN invs : invs[k].pc = "pending") =>
       \E k \in DOMAIN invs : ENABLED AutomationTrigger(k)

C6_Witness ==
  \E k, j \in DOMAIN invs :
    /\ k < j /\ invs[k].sub = invs[j].sub /\ invs[k].ev.id < invs[j].ev.id
    /\ Returned(k) /\ invs[k].result.kind = "throws" /\ Failed(k) = 1
    /\ Returned(j) /\ invs[j].result.kind = "exit0" /\ Completed(j) = 1

(***************************************************************************)
(* Automations triggered by the events the engine itself publishes.        *)
(***************************************************************************)
\* Automations as commandCreateAutomation saves them when the topic picked
\* from broker.getTopicNames() is workflow.automation or notification.
OnWorkflow ==
  Automation("echo", "workflow.automation", Undefined, Undefined, "command", "make")
OnFailure ==
  Automation("retry", "workflow.automation", "workflow.failed", Undefined, "command", "make")
OnNotification ==
  Automation("say", "notification", Undefined, Undefined, "command", "say done")

ChainAutomations ==
  { << LogAll >>, << LogAll, OnWorkflow >>, << LogAll, OnFailure >>,
    << LogAll, OnNotification >> }

InitChain ==
  /\ configFile \in { [DefaultConfig EXCEPT !.automations = a] : a \in ChainAutomations }
  /\ subs = <<>> /\ invs = <<>> /\ evCount = 0 /\ createCount = 0 /\ setupDone = FALSE
  /\ gateUp = FALSE
  /\ gateConfig = DefaultConfig
  /\ inFocusMode = FALSE
  /\ now = [h |-> 12, m |-> 0]
  /\ gateInbox = <<>>
  /\ gateLast = NoneHandled
  /\ lastFocus = "none"
  /\ pubCount = 0
  /\ silentResult = NotChecked
  /\ togglePc = "idle" /\ toggleCount = 0 /\ timers = 0
  /\ focusStarted = 0 /\ focusEnded = 0 /\ focusLog = <<>>
  /\ ProducersIdle
  /\ InsightsIdle
  /\ ConfigureIdle

NextChain ==
  \/ SetupAutomations
  \/ PublishExternal
  \/ \E k \in DOMAIN invs : AutomationTrigger(k)
  \/ \E k \in DOMAIN invs : AutomationCommandEnds(k)

SpecChain == InitChain /\ [][NextChain]_vars

\* C38: handling one externally produced event quiesces. A handler run that
\* publishes an event equal to the one that triggered it is handed that event
\* again and runs again in the same way, without end; so no handler run
\* publishes the event that triggered it, whatever the trigger topic of the
\* automation.
C38_DerivedChainIsFinite ==
  \A k \in DOMAIN invs :
    \A i \in DOMAIN invs[k].emitted : invs[k].emitted[i] # invs[k].ev

\* The whitespace characters a command string can hold.
IsWhitespace(c) == c = " " \/ c = "\t"

HasWhitespace(s) == \E i \in 1..Len(s) : IsWhitespace(CharAt(s, i))

\* C34: the program and the arguments a handler spawns are the tokens of
\* the command string between runs of whitespace: none of them is empty and
\* none holds a whitespace character.
C34_CommandSplitOnWhitespace ==
  \A k \in DOMAIN invs :
    invs[k].spawn.spawned =>
      /\ invs[k].spawn.program # "" /\ ~HasWhitespace(invs[k].spawn.program)
      /\ \A i \in DOMAIN invs[k].spawn.args :
           invs[k].spawn.args[i] # "" /\ ~HasWhitespace(invs[k].spawn.args[i])

(***************************************************************************)
(* helpers/notification.ts                                                 *)
(***************************************************************************)
\* currentHour * 60 + currentMinute
MinuteOfDay(t) == t.h * 60 + t.m

\* "HH:MM" to minutes: split(":"), parseInt of both parts.
ParseTime(text) ==
  LET parts == Split(text, ":")
  IN ParseInt(parts[1]) * 60 + ParseInt(parts[2])

\* isInSilentHours with exclusive ends.
IsInSilentHoursExclusive(config, t) ==
  LET currentTime == MinuteOfDay(t)
      startTime == ParseTime(config.silentHours.start)
      endTime == ParseTime(config.silentHours.end)
  IN IF startTime > endTime
       THEN currentTime > startTime \/ currentTime < endTime
       ELSE currentTime > startTime /\ currentTime < endTime

\* isInSilentHours(config), with new Date() reading t.
IsInSilentHours(config, t) ==
  LET currentTime == MinuteOfDay(t)
      startTime == ParseTime(config.silentHours.start)
      endTime == ParseTime(config.silentHours.end)
  IN IF startTime > endTime
       THEN currentTime >= startTime \/ currentTime <= endTime
       ELSE currentTime >= startTime /\ currentTime <= endTime

\* isHighPriority(message, config)
IsHighPriority(message, config) ==
  \E i \in DOMAIN config.priorityPatterns :
    Includes(ToLowerCase(message), ToLowerCase(config.priorityPatterns[i]))

(***************************************************************************)
(* setupNotifications: the notification gate                               *)
(***************************************************************************)
\* The gate's test with the patterns compared as they are written.
SuppressesCaseSensitive(message, config, focus, t) ==
  /\ ~(\E i \in DOMAIN config.priorityPatterns :
         Includes(message, config.priorityPatterns[i]))
  /\ (focus \/ IsInSilentHours(config, t))

\* The condition of the gate's early return.
Suppresses(message, config, focus, t) ==
  /\ ~IsHighPriority(message, config)
  /\ (focus \/ IsInSilentHours(config, t))

\* The focus flag with only "available" clearing it.
FocusFlagUnlessAvailable(state) == state # "available"

\* inFocusMode = focusEvent.state === "focus"
FocusFlag(state) == state = "focus"

\* Reads CONFIG_FILE, takes the focus flag from it, subscribes both handlers.
SetupNotifications ==
  /\ ~gateUp
  /\ gateUp' = TRUE
  /\ gateConfig' = configFile
  /\ inFocusMode' = configFile.focusMode
  /\ UNCHANGED <<configFile, autoVars, gateInbox, gateLast, lastFocus, pubCount,
                 clockVars, focusVars, producerVars, insightsVars, configure>>

\* The broker hands the published events to the gate's handlers in publish
\* order: a handler runs when the oldest pending event is of its topic.
Pending(topic) == { i \in DOMAIN gateInbox : gateInbox[i].topic = topic }
FirstPending(topic) == CHOOSE i \in Pending(topic) : \A j \in Pending(topic) : i <= j
RemoveAt(seq, i) == SubSeq(seq, 1, i - 1) \o SubSeq(seq, i + 1, Len(seq))

\* What showing a notification through the OS can come to: the display
\* command ran and exited with 0 ("shown") or with another code ("failed"),
\* the command is not installed ("missing"), or Deno.build.os is none of
\* windows, darwin and linux ("unsupported").
Displays == {"shown", "failed", "missing", "unsupported"}

\* The end of the notification handler for a notification that is not
\* suppressed. getBuiltinNotifierCommandAndArgs throws on an unsupported OS and
\* command.output() rejects when the command cannot be spawned; neither is
\* inside a try, so the handler's promise rejects. The exit code and the
\* output of the display command are not looked at. Nothing is logged.
Display(outcome) ==
  [display |-> outcome,
   threw |-> outcome \in {"missing", "unsupported"},
   logged |-> FALSE]

\* The suppressed notification: the handler returns before the display.
NotDisplayed == [display |-> "none", threw |-> FALSE, logged |-> FALSE]

\* The handler of the notification topic.
GateNotification ==
  /\ Pending("notification") # {}
  /\ FirstPending("notification") = 1
  /\ LET i == FirstPending("notification")
         message == gateInbox[i].payload.message
         forwarded == ~Suppresses(message, gateConfig, inFocusMode, now)
     IN /\ \E shown \in (IF forwarded THEN { Display(o) : o \in Displays }
                                       ELSE { NotDisplayed }) :
             gateLast' = [kind |-> "notification", message |-> message,
                          forwarded |-> forwarded,
                          focus |-> inFocusMode, at |-> now,
                          display |-> shown.display, threw |-> shown.threw,
                          logged |-> shown.logged]
        /\ gateInbox' = RemoveAt(gateInbox, i)
  /\ UNCHANGED <<configFile, autoVars, gateUp, gateConfig, inFocusMode, lastFocus,
                 pubCount, clockVars, focusVars, producerVars, insightsVars, configure>>

\* The handler of the focus.state topic: sets the flag and writes the gate's
\* config object, with the flag in it, to CONFIG_FILE.
GateFocusState ==
  /\ Pending("focus.state") # {}
  /\ FirstPending("focus.state") = 1
  /\ LET i == FirstPending("focus.state")
     IN /\ inFocusMode' = FocusFlag(gateInbox[i].payload.state)
        /\ lastFocus' = gateInbox[i].payload.state
        /\ gateInbox' = RemoveAt(gateInbox, i)
  /\ gateConfig' = [gateConfig EXCEPT !.focusMode = inFocusMode']
  /\ configFile' = gateConfig'
  /\ UNCHANGED <<autoVars, gateUp, gateLast, pubCount, clockVars, focusVars, producerVars, insightsVars, configure>>

(***************************************************************************)
(* Other publishers on the gate's topics, and the clock.                   *)
(***************************************************************************)
Messages == {"Build done", "SECURITY alert", "a Test Failure"}

NotificationEvent(level, message, type, source) ==
  Event(0, "notification", type,
        [level |-> level, message |-> message, source |-> source, actionable |-> FALSE])

FocusStateEvent(type, state, duration) ==
  Event(0, "focus.state", type, [state |-> state, duration |-> duration])

PublishNotification ==
  /\ pubCount < MaxPublished
  /\ \E message \in Messages :
       gateInbox' = gateInbox
                      \o GateDeliveries(<< NotificationEvent("info", message, "notification.insights", "Insights") >>, gateUp)
  /\ pubCount' = pubCount + 1
  /\ UNCHANGED <<configFile, autoVars, gateState, clockVars, focusVars, producerVars, insightsVars, configure>>

PublishFocusState ==
  /\ pubCount < MaxPublished
  /\ \E state \in {"focus", "break", "available"} :
       gateInbox' = gateInbox
                      \o GateDeliveries(<< FocusStateEvent("focus." \o state, state, 0) >>, gateUp)
  /\ pubCount' = pubCount + 1
  /\ UNCHANGED <<configFile, autoVars, gateState, clockVars, focusVars, producerVars, insightsVars, configure>>

Time(h, m) == [h |-> h, m |-> m]

Times == { Time(2, 0), Time(12, 0), Time(23, 0) }

\* Wall-clock time passes.
Tick ==
  /\ \E t \in Times : t # now /\ now' = t
  /\ UNCHANGED <<configFile, autoVars, gateState, gateInbox, pubCount, silentResult,
                 focusVars, producerVars, insightsVars, configure>>

GateConfigs ==
  { [DefaultConfig EXCEPT !.focusMode = f, !.silentHours = sh,
                          !.priorityPatterns = <<"test failure", "Security">>] :
      f \in BOOLEAN,
      sh \in { [start |-> "22:00", end |-> "06:00"], [start |-> "9:30", end |-> "17:05"] } }

InitGate ==
  /\ configFile \in GateConfigs
  /\ subs = <<>> /\ invs = <<>> /\ evCount = 0 /\ createCount = 0 /\ setupDone = FALSE
  /\ gateUp = FALSE
  /\ gateConfig = DefaultConfig
  /\ inFocusMode = FALSE
  /\ now \in {Time(12, 0), Time(23, 0)}
  /\ gateInbox = <<>>
  /\ gateLast = NoneHandled
  /\ lastFocus = "none"
  /\ pubCount = 0
  /\ silentResult = NotChecked
  /\ togglePc = "idle" /\ toggleCount = 0 /\ timers = 0
  /\ focusStarted = 0 /\ focusEnded = 0 /\ focusLog = <<>>
  /\ ProducersIdle
  /\ InsightsIdle
  /\ ConfigureIdle

NextGate ==
  \/ SetupNotifications
  \/ PublishNotification
  \/ PublishFocusState
  \/ Tick
  \/ GateNotification
  \/ GateFocusState

SpecGate == InitGate /\ [][NextGate]_vars

(***************************************************************************)
(* isInSilentHours on its own: any configured window, any time of day.     *)
(***************************************************************************)
\* The configured "HH:MM" texts, each with the minute of the day it names.
TimeTexts ==
  { [text |-> "22:00", minutes |-> 1320], [text |-> "06:00", minutes |-> 360],
    [text |-> "08:00", minutes |-> 480],  [text |-> "9:30", minutes |-> 570],
    [text |-> "17:05", minutes |-> 1025], [text |-> "00:00", minutes |-> 0],
    [text |-> "23:59", minutes |-> 1439] }

SilentTimes ==
  Times \cup { Time(0, 0), Time(6, 0), Time(6, 1), Time(8, 0), Time(9, 30), Time(17, 5),
               Time(17, 6), Time(21, 59), Time(22, 0), Time(23, 59) }

CheckSilentHours ==
  /\ silentResult' = [kind |-> "checked", at |-> now,
                      value |-> IsInSilentHours(gateConfig, now)]
  /\ UNCHANGED <<configFile, autoVars, gateState, gateInbox, pubCount, now, focusVars, producerVars, insightsVars, configure>>

SilentTick ==
  /\ \E t \in SilentTimes : t # now /\ now' = t
  /\ UNCHANGED <<configFile, autoVars, gateState, gateInbox, pubCount, silentResult,
                 focusVars, producerVars, insightsVars, configure>>

InitSilent ==
  /\ \E s, e \in TimeTexts :
       configFile = [DefaultConfig EXCEPT !.silentHours = [start |-> s.text, end |-> e.text]]
  /\ gateConfig = configFile
  /\ subs = <<>> /\ invs = <<>> /\ evCount = 0 /\ createCount = 0 /\ setupDone = FALSE
  /\ gateUp = TRUE
  /\ inFocusMode = FALSE
  /\ now \in SilentTimes
  /\ gateInbox = <<>>
  /\ gateLast = NoneHandled
  /\ lastFocus = "none"
  /\ pubCount = 0
  /\ silentResult = NotChecked
  /\ togglePc = "idle" /\ toggleCount = 0 /\ timers = 0
  /\ focusStarted = 0 /\ focusEnded = 0 /\ focusLog = <<>>
  /\ ProducersIdle
  /\ InsightsIdle
  /\ ConfigureIdle

NextSilent ==
  \/ CheckSilentHours
  \/ SilentTick

SpecSilent == InitSilent /\ [][NextSilent]_vars

(***************************************************************************)
(* Properties of the notification gate.                                    *)
(***************************************************************************)
\* One letter, whatever its case.
SameLetter(c, d) ==
  \/ c = d
  \/ \E i \in 1..26 :
       {c, d} = {CharAt(UpperLetters, i), CharAt(LowerLetters, i)}

\* phrase occurs in message when the case of letters is ignored.
ContainsIgnoringCase(message, phrase) ==
  \E i \in 1..(Len(message) - Len(phrase) + 1) :
    \A j \in 1..Len(phrase) : SameLetter(CharAt(message, i + j - 1), CharAt(phrase, j))

HasPriorityPhrase(message, config) ==
  \E i \in DOMAIN config.priorityPatterns :
    ContainsIgnoringCase(message, config.priorityPatterns[i])

\* The silent window over minutes of the day, as the specification words it.
InWindow(start, end, current) ==
  IF start > end THEN current >= start \/ current <= end
                 ELSE start <= current /\ current <= end

MinutesOf(text) == (CHOOSE t \in TimeTexts : t.text = text).minutes

\* C7: a handled notification was suppressed iff its message has no priority
\* phrase (case ignored) and the gate was in focus mode or inside silent hours
\* at that time; a message with a priority phrase is always forwarded.
C7_SuppressedIffNotPriorityAndQuiet ==
  gateLast.kind = "notification" =>
    /\ ~gateLast.forwarded <=>
         /\ ~HasPriorityPhrase(gateLast.message, gateConfig)
         /\ \/ gateLast.focus
            \/ InWindow(MinutesOf(gateConfig.silentHours.start),
                        MinutesOf(gateConfig.silentHours.end),
                        MinuteOfDay(gateLast.at))
    /\ HasPriorityPhrase(gateLast.message, gateConfig) => gateLast.forwarded

C7_Witness ==
  /\ gateLast.kind = "notification"
  /\ gateLast.message = "SECURITY alert"
  /\ gateLast.focus
  /\ gateLast.at = Time(23, 0)
  /\ gateConfig.silentHours.start = "22:00"
  /\ gateLast.forwarded

\* C8: isInSilentHours is the window test on minutes of the day, both ends
\* included, wrapping over midnight when start > end; with 22:00 to 06:00,
\* 23:00 and 02:00 are inside and 12:00 is outside.
C8_SilentHoursWindow ==
  silentResult.kind = "checked" =>
    /\ silentResult.value <=>
         InWindow(MinutesOf(gateConfig.silentHours.start),
                  MinutesOf(gateConfig.silentHours.end),
                  MinuteOfDay(silentResult.at))
    /\ (gateConfig.silentHours = [start |-> "22:00", end |-> "06:00"]) =>
         /\ silentResult.at \in {Time(23, 0), Time(2, 0)} => silentResult.value
         /\ silentResult.at = Time(12, 0) => ~silentResult.value

C8_Witness ==
  /\ silentResult.kind = "checked"
  /\ gateConfig.silentHours = [start |-> "22:00", end |-> "06:00"]
  /\ silentResult.at = Time(6, 0)
  /\ silentResult.value

\* C9: once the gate has handled a focus-state event, inFocusMode is true iff
\* the last handled event's state is focus, and the focusMode written to the
\* configuration file equals inFocusMode.
C9_FocusFlagFollowsLastEvent ==
  lastFocus # "none" =>
    /\ inFocusMode <=> lastFocus = "focus"
    /\ gateConfig.focusMode = inFocusMode
    /\ configFile.focusMode = inFocusMode

C9_Witness ==
  /\ lastFocus = "break"
  /\ ~inFocusMode
  /\ ~configFile.focusMode
  /\ gateLast.kind = "notification" /\ gateLast.focus

\* C33: when showing a notification that is not suppressed fails (the
\* display command is missing or exits with an error, or the OS is not
\* supported), the failure is caught in the handler and logged: no exception
\* leaves the handler.
C33_DisplayFailureIsCaught ==
  (gateLast.kind = "notification" /\ gateLast.forwarded
     /\ gateLast.display \in {"failed", "missing", "unsupported"}) =>
    /\ ~gateLast.threw
    /\ gateLast.logged

(***************************************************************************)
(* commandToggleFocus                                                      *)
(***************************************************************************)
\* What the duration prompt can return (minutes).
PromptDurations == {"25", "1"}

\* parseInt(duration) * 60 * 1000
DurationMs(duration) == ParseInt(duration) * 60 * 1000

FocusEndedEvent == FocusStateEvent("focus.ended", "available", 0)

FocusCompletedNotification ==
  Event(0, "notification", "notification.focus",
        [level |-> "success", message |-> "Focus session completed! Take a short break.",
         source |-> "Focus Timer", actionable |-> FALSE])

\* The focus handler is synchronous: a published focus-state event has been
\* handled by the time a timeout of minutes fires or the user picks a command.
FocusEventsHandled == Pending("focus.state") = {}

\* The command reads focusMode from CONFIG_FILE and finds it off: it goes on
\* to ask for the duration.
ToggleFocusAsks ==
  /\ togglePc = "idle"
  /\ FocusEventsHandled
  /\ toggleCount < MaxToggles
  /\ ~configFile.focusMode
  /\ togglePc' = "prompt"
  /\ toggleCount' = toggleCount + 1
  /\ UNCHANGED <<configFile, autoVars, gateState, gateInbox, pubCount, clockVars,
                 timers, focusStarted, focusEnded, focusLog, producerVars, insightsVars, configure>>

\* The prompt returns: focus.started is published and the end is scheduled
\* with setTimeout.
ToggleFocusStarts ==
  /\ togglePc = "prompt"
  /\ \E duration \in PromptDurations :
       LET ev == FocusStateEvent("focus.started", "focus", DurationMs(duration))
       IN /\ gateInbox' = gateInbox \o GateDeliveries(<< ev >>, gateUp)
          /\ invs' = invs \o Publish(<< ev >>, subs)
  /\ timers' = timers + 1
  /\ focusStarted' = focusStarted + 1
  /\ focusLog' = Append(focusLog, "focus.started")
  /\ togglePc' = "idle"
  /\ UNCHANGED <<configFile, subs, evCount, createCount, setupDone, gateState,
                 pubCount, clockVars, toggleCount, focusEnded, producerVars, insightsVars, configure>>

\* The command reads focusMode from CONFIG_FILE and finds it on: it publishes
\* focus.ended.
ToggleFocusEnds ==
  /\ togglePc = "idle"
  /\ FocusEventsHandled
  /\ toggleCount < MaxToggles
  /\ configFile.focusMode
  /\ gateInbox' = gateInbox \o GateDeliveries(<< FocusEndedEvent >>, gateUp)
  /\ invs' = invs \o Publish(<< FocusEndedEvent >>, subs)
  /\ focusEnded' = focusEnded + 1
  /\ focusLog' = Append(focusLog, "focus.ended")
  /\ toggleCount' = toggleCount + 1
  /\ UNCHANGED <<configFile, subs, evCount, createCount, setupDone, gateState,
                 pubCount, clockVars, togglePc, timers, focusStarted, producerVars, insightsVars, configure>>

\* A timeout callback that publishes the notification before focus.ended.
TimerPublishesAlertFirst == << FocusCompletedNotification, FocusEndedEvent >>

\* What the timeout callback publishes, in order: `await publish` of
\* focus.ended, then `await publish` of the notification.
TimerPublishes == << FocusEndedEvent, FocusCompletedNotification >>

\* A scheduled timeout fires: focus.ended, then the notification.
FocusTimerFires ==
  /\ timers > 0
  /\ FocusEventsHandled
  /\ timers' = timers - 1
  /\ LET out == TimerPublishes
     IN /\ gateInbox' = gateInbox \o GateDeliveries(out, gateUp)
        /\ invs' = invs \o Publish(out, subs)
  /\ focusEnded' = focusEnded + 1
  /\ focusLog' = Append(focusLog, "focus.ended")
  /\ UNCHANGED <<configFile, subs, evCount, createCount, setupDone, gateState,
                 pubCount, clockVars, togglePc, toggleCount, focusStarted, producerVars, insightsVars, configure>>

InitFocus ==
  /\ configFile = DefaultConfig
  /\ subs = <<>> /\ invs = <<>> /\ evCount = 0 /\ createCount = 0 /\ setupDone = FALSE
  /\ gateUp = FALSE
  /\ gateConfig = DefaultConfig
  /\ inFocusMode = FALSE
  /\ now \in Times
  /\ gateInbox = <<>>
  /\ gateLast = NoneHandled
  /\ lastFocus = "none"
  /\ pubCount = 0
  /\ silentResult = NotChecked
  /\ togglePc = "idle" /\ toggleCount = 0 /\ timers = 0
  /\ focusStarted = 0 /\ focusEnded = 0 /\ focusLog = <<>>
  /\ ProducersIdle
  /\ InsightsIdle
  /\ ConfigureIdle

NextFocus ==
  \/ SetupNotifications
  \/ ToggleFocusAsks
  \/ ToggleFocusStarts
  \/ ToggleFocusEnds
  \/ FocusTimerFires
  \/ GateNotification
  \/ GateFocusState

SpecFocus == InitFocus /\ [][NextFocus]_vars

(***************************************************************************)
(* Properties of the focus command.                                        *)
(***************************************************************************)
\* C10: the focus.ended events published never outnumber the focus.started
\* events, and once no end is scheduled any more every started session has
\* had exactly one focus.ended.
C10_OneEndPerFocusSession ==
  /\ focusEnded <= focusStarted
  /\ timers = 0 => focusEnded = focusStarted

\* C11: at most one focus session is active at a time: no focus.started is
\* published while the focus-state event published last is a focus.started,
\* a toggle during a session publishes focus.ended instead.
C11_OneActiveFocusSession ==
  \A i \in 1..(Len(focusLog) - 1) :
    ~(focusLog[i] = "focus.started" /\ focusLog[i + 1] = "focus.started")

\* C24: when a scheduled focus end fires, focus.ended is published before
\* the completion notification; the gate has cleared inFocusMode when the
\* notification arrives, and the notification is not suppressed unless the
\* silent hours apply.
C24_CompletionAlertAfterFocusEnded ==
  /\ [](gateLast.kind = "notification"
          /\ gateLast.message = FocusCompletedNotification.payload.message
        => /\ ~gateLast.focus
           /\ gateLast.forwarded \/ IsInSilentHours(gateConfig, gateLast.at))
  /\ [][(timers' < timers /\ gateUp) =>
          gateInbox' = gateInbox \o << FocusEndedEvent, FocusCompletedNotification >>]_vars

\* The completion notification of a session has arrived at the gate and was
\* forwarded; the focus.ended before it was the last focus-state event.
C24_Witness ==
  /\ gateLast.kind = "notification"
  /\ gateLast.message = FocusCompletedNotification.payload.message
  /\ gateLast.forwarded
  /\ lastFocus = "available"
  /\ focusStarted >= 1

\* C25: an explicit early end preempts the scheduled end of its session: no
\* scheduled end fires, publishing a further focus.ended and the completion
\* notification, while the last focus-state event the gate handled is the
\* end of the session.
C25_EarlyEndPreemptsScheduledEnd ==
  [][timers' < timers => lastFocus # "available"]_vars

(***************************************************************************)
(* commandConfigure, and the commands that write CONFIG_FILE next to the   *)
(* gate.                                                                   *)
(***************************************************************************)
\* What the user can change in one run: the silent hours in the notification
\* section, or the two switches of the insights section.
ConfigureChoices ==
  { [section |-> "notification", silentHours |-> [start |-> "21:00", end |-> "07:00"]],
    [section |-> "insights", insights |-> [collectStats |-> FALSE, dailySummary |-> TRUE]] }

\* The config object commandConfigure loaded, with the chosen setting set.
Configured(config, choice) ==
  IF choice.section = "notification"
    THEN [config EXCEPT !.silentHours = choice.silentHours]
    ELSE [config EXCEPT !.insights = choice.insights]

\* commandConfigure reads and parses CONFIG_FILE, then waits at its prompts.
ConfigureLoads ==
  /\ configure.pc = "idle"
  /\ configure.runs < MaxConfigure
  /\ configure' = [pc |-> "prompt", runs |-> configure.runs + 1, config |-> configFile]
  /\ UNCHANGED <<configFile, autoVars, gateState, gateInbox, pubCount, clockVars,
                 focusVars, producerVars, insightsVars>>

\* The prompts return: the object loaded at the start, with the setting
\* changed, is written to CONFIG_FILE.
ConfigureSaves ==
  /\ configure.pc = "prompt"
  /\ \E choice \in ConfigureChoices :
       configFile' = Configured(configure.config, choice)
  /\ configure' = [pc |-> "idle", runs |-> configure.runs]
  /\ UNCHANGED <<autoVars, gateState, gateInbox, pubCount, clockVars, focusVars,
                 producerVars, insightsVars>>

\* main has not set anything up; commandConfigure and
\* commandCreateAutomation are picked from the menu in any order, while
\* focus-state events are published (by the focus command, by a scheduled
\* focus end, or by another component).
InitConfig ==
  /\ configFile = DefaultConfig
  /\ subs = <<>> /\ invs = <<>> /\ evCount = 0 /\ createCount = 0 /\ setupDone = FALSE
  /\ gateUp = FALSE
  /\ gateConfig = DefaultConfig
  /\ inFocusMode = FALSE
  /\ now = Time(12, 0)
  /\ gateInbox = <<>>
  /\ gateLast = NoneHandled
  /\ lastFocus = "none"
  /\ pubCount = 0
  /\ silentResult = NotChecked
  /\ togglePc = "idle" /\ toggleCount = 0 /\ timers = 0
  /\ focusStarted = 0 /\ focusEnded = 0 /\ focusLog = <<>>
  /\ ProducersIdle
  /\ InsightsIdle
  /\ ConfigureIdle

NextConfig ==
  \/ SetupAutomations
  \/ SetupNotifications
  \/ CommandCreateAutomation
  \/ ConfigureLoads
  \/ ConfigureSaves
  \/ PublishFocusState
  \/ GateFocusState

SpecConfig == InitConfig /\ [][NextConfig]_vars

\* C36: when the gate persists the focus flag, focusMode is the only field
\* of CONFIG_FILE that changes: the automations and settings saved since the
\* gate's setup are still in the file.
C36_GatePersistsOnlyFocusFlag ==
  [][(Len(gateInbox') < Len(gateInbox) /\ Head(gateInbox).topic = "focus.state") =>
       configFile' = [configFile EXCEPT !.focusMode = inFocusMode']]_vars

\* Every handler of the gate has run and no command is waiting at a prompt.
Quiescent ==
  /\ gateInbox = <<>>
  /\ togglePc = "idle"
  /\ configure.pc = "idle"

\* C37: once all handlers and commands have finished, the focusMode in
\* CONFIG_FILE, which commandToggleFocus reads, is the gate's inFocusMode.
C37_PersistedFocusFlagIsTheGates ==
  (gateUp /\ Quiescent) => configFile.focusMode = inFocusMode

(***************************************************************************)
(* helpers: the file watcher (shouldIgnore, scanDir, watchDir), and        *)
(* watchFiles.                                                             *)
(***************************************************************************)
Range(seq) == { seq[i] : i \in DOMAIN seq }

\* A Map<string, V> is a function on the set of its keys.
MapHas(map, key) == key \in DOMAIN map
MapSet(map, key, value) ==
  [k \in DOMAIN map \cup {key} |-> IF k = key THEN value ELSE map[k]]
\* A delete that leaves the entry in place.
MapKeep(map, key) == map

MapDelete(map, key) == [k \in DOMAIN map \ {key} |-> map[k]]

\* shouldIgnore with the pattern compared with the whole path.
ShouldIgnoreWholePath(path, ignore) ==
  \E k \in DOMAIN ignore : path = ignore[k]

\* ignorePaths.some((ignore) => path.includes(ignore))
ShouldIgnore(path, ignore) ==
  \E k \in DOMAIN ignore : Includes(path, ignore[k])

\* path.join(dirPath, entry.name)
Join(dirPath, name) == dirPath \o "/" \o name

\* path.split(".").pop() || ""
Extension(path) ==
  LET parts == Split(path, ".") IN parts[Len(parts)]

\* What Deno.stat gives: mtime is a Date or null (the set holds its getTime()
\* or is empty), or stat throws.
Stat(mtime, size) == [ok |-> TRUE, mtime |-> mtime, size |-> size]
StatFails == [ok |-> FALSE, mtime |-> {}, size |-> 0]

\* stat.mtime?.getTime() || 0
MTimeOrZero(stat) == IF stat.mtime = {} THEN 0 ELSE CHOOSE t \in stat.mtime : TRUE

\* The modify test with the size comparison left out.
UnchangedMtimeOnly(map, path, stat) ==
  /\ MapHas(map, path)
  /\ stat.mtime = {map[path].mtime}

\* previous && previous.mtime === stat.mtime?.getTime() &&
\* previous.size === stat.size
Unchanged(map, path, stat) ==
  /\ MapHas(map, path)
  /\ stat.mtime = {map[path].mtime}
  /\ map[path].size = stat.size

\* The directory tree the scans read.
File(name) == [name |-> name, isDirectory |-> FALSE, isFile |-> TRUE]
Directory(name) == [name |-> name, isDirectory |-> TRUE, isFile |-> FALSE]
Symlink(name) == [name |-> name, isDirectory |-> FALSE, isFile |-> FALSE]

\* Deno.readDir(dirPath), for a directory that can be listed; entries that do
\* not exist yet at the time of the scan are left out.
ReadDir(dirPath, view) ==
  LET all == CASE dirPath = "/proj" ->
                    << Directory("src"), Directory("node_modules"), File("Makefile") >>
               [] dirPath = "/proj/src" -> << File("a.ts") >>
               [] dirPath = "/proj/node_modules" -> << File("x.txt") >>
               [] dirPath = "/lib" -> << File("b.ts"), Symlink("cur") >>
               [] OTHER -> <<>>
  IN SelectSeq(all, LAMBDA e : Join(dirPath, e.name) \notin view.absent)

\* What a scan finds: files created only later, directories whose listing
\* throws, files that are listed and gone when stat is called.
ScanViews ==
  { [absent |-> a, unreadable |-> u, gone |-> g] :
      a \in { {}, {"/proj/src/a.ts"} },
      u \in { {}, {"/proj/src"}, {"/lib"} },
      g \in { {}, {"/proj/Makefile"} } }

\* The stat of a file at scan time.
ScanStat == Stat({1}, 10)

\* scanDir: the for-await loop over the entries of dirPath. The value is
\* [ok, fileMap]; ok is FALSE when a Deno.readDir threw, which ends the scan.
RECURSIVE ScanDir(_, _, _, _)
RECURSIVE ScanEntries(_, _, _, _, _)
ScanEntries(dirPath, entries, ignore, map, view) ==
  IF entries = <<>> THEN [ok |-> TRUE, fileMap |-> map]
  ELSE LET entry == Head(entries)
           entryPath == Join(dirPath, entry.name)
       IN IF ShouldIgnore(entryPath, ignore)
            THEN ScanEntries(dirPath, Tail(entries), ignore, map, view)
          ELSE IF entry.isDirectory
            THEN LET sub == ScanDir(entryPath, ignore, map, view)
                 IN IF sub.ok
                      THEN ScanEntries(dirPath, Tail(entries), ignore, sub.fileMap, view)
                      ELSE sub
          ELSE IF entry.isFile
            THEN IF entryPath \in view.gone
                   THEN ScanEntries(dirPath, Tail(entries), ignore, map, view)
                   ELSE ScanEntries(dirPath, Tail(entries), ignore,
                          MapSet(map, entryPath,
                                 [mtime |-> MTimeOrZero(ScanStat), size |-> ScanStat.size]),
                          view)
          ELSE ScanEntries(dirPath, Tail(entries), ignore, map, view)

ScanDir(dirPath, ignore, map, view) ==
  IF dirPath \in view.unreadable
    THEN [ok |-> FALSE, fileMap |-> map]
    ELSE ScanEntries(dirPath, ReadDir(dirPath, view), ignore, map, view)

FileEvent(type, payload) == Event(0, "file.changes", type, payload)

DeletePayload(path, extension) ==
  [path |-> path, operation |-> "delete", extension |-> extension]

\* watchDir: the body of the loop over event.paths for one path. acc is
\* [fileMap, published].
ProcessPath(kind, path, stat, ignore, acc) ==
  IF ShouldIgnore(path, ignore) THEN acc
  ELSE IF kind \in {"create", "modify"}
    THEN IF ~stat.ok THEN acc
         ELSE LET fileEvent == FilePayload(path, kind, Extension(path), stat.size)
              IN IF kind = "modify"
                   THEN IF Unchanged(acc.fileMap, path, stat) THEN acc
                        ELSE [fileMap |-> MapSet(acc.fileMap, path,
                                            [mtime |-> MTimeOrZero(stat), size |-> stat.size]),
                              published |-> Append(acc.published,
                                                   FileEvent("file.modify", fileEvent))]
                   ELSE [acc EXCEPT !.published =
                           Append(@, FileEvent("file.create", fileEvent))]
  ELSE IF kind = "remove"
    THEN [fileMap |-> MapDelete(acc.fileMap, path),
          published |-> Append(acc.published,
                               FileEvent("file.delete", DeletePayload(path, Extension(path))))]
  ELSE acc

\* A loop over event.paths that a failing stat ends.
RECURSIVE ProcessPathsUntilFailure(_, _, _, _)
ProcessPathsUntilFailure(event, i, ignore, acc) ==
  IF i > Len(event.paths) THEN acc
  ELSE IF event.kind \in {"create", "modify"} /\ ~event.stats[i].ok
         /\ ~ShouldIgnore(event.paths[i], ignore)
    THEN acc
  ELSE ProcessPathsUntilFailure(event, i + 1, ignore,
         ProcessPath(event.kind, event.paths[i], event.stats[i], ignore, acc))

\* for (const path of event.paths)
RECURSIVE ProcessPaths(_, _, _, _)
ProcessPaths(event, i, ignore, acc) ==
  IF i > Len(event.paths) THEN acc
  ELSE ProcessPaths(event, i + 1, ignore,
                    ProcessPath(event.kind, event.paths[i], event.stats[i], ignore, acc))

\* The error of one root's loop reaches every loop.
AfterFailureStopsAll(status, root) == [r \in DOMAIN status |-> "stopped"]

\* watchDir's outer catch: the error is logged and this root's loop ends.
AfterFailure(status, root) == [status EXCEPT ![root] = "stopped"]

\* The roots and ignore lists main passes to watchFiles.
WatchRoots == <<"/proj", "/lib">>
IgnoreLists == { <<"node_modules">>, <<"dist", "src">> }

\* watchFiles: starts watchDir for every root without awaiting it, resolves.
\* Each watchDir creates its map and is suspended in its scan.
WatchFiles ==
  /\ watchStatus = <<>>
  /\ ignorePaths' \in IgnoreLists
  /\ watchStatus' = [r \in Range(WatchRoots) |-> "scanning"]
  /\ fileMap' = [r \in Range(WatchRoots) |-> <<>>]
  /\ watchResolved' = TRUE
  /\ UNCHANGED <<watchLast, watchPrev, watchLog, gitVars, buildVars, consumerVars, insightsVars, configure>>

\* watchDir(root): the initial scan ends; the loop starts, or the scan threw.
ScanCompletes(root) ==
  /\ watchStatus[root] = "scanning"
  /\ \E view \in ScanViews :
       LET scan == ScanDir(root, ignorePaths, fileMap[root], view)
       IN /\ IF scan.ok
               THEN /\ fileMap' = [fileMap EXCEPT ![root] = scan.fileMap]
                    /\ watchStatus' = [watchStatus EXCEPT ![root] = "watching"]
               ELSE /\ watchStatus' = AfterFailure(watchStatus, root)
                    /\ UNCHANGED fileMap
          /\ watchLast' = [kind |-> "scan", root |-> root, view |-> view,
                           started |-> scan.ok, recorded |-> DOMAIN scan.fileMap]
  /\ UNCHANGED <<watchResolved, watchPrev, watchLog, ignorePaths, gitVars, buildVars,
                 consumerVars, insightsVars, configure>>

\* The raw notifications Deno.watchFs(root) can deliver, each with what
\* Deno.stat gives for its paths at that moment.
StatResults == { Stat({1}, 10), Stat({2}, 10), Stat({1}, 20), Stat({}, 10), StatFails }

RawEvent(kind, paths, stats) == [kind |-> kind, paths |-> paths, stats |-> stats]

RawEvents(root) ==
  IF root = "/proj"
    THEN { RawEvent("modify", << "/proj/src/a.ts" >>, << stat >>) : stat \in StatResults }
         \cup { RawEvent("create", << "/proj/src/a.ts" >>, << Stat({1}, 10) >>),
                RawEvent("create", << "/proj/src/a.ts" >>, << StatFails >>),
                RawEvent("remove", << "/proj/src/a.ts" >>, << StatFails >>),
                RawEvent("create", << "/proj/node_modules/x.txt" >>, << Stat({1}, 10) >>),
                RawEvent("remove", << "/proj/node_modules/x.txt" >>, << StatFails >>),
                RawEvent("access", << "/proj/Makefile" >>, << Stat({1}, 10) >>),
                RawEvent("create", << "/proj/node_modules/x.txt", "/proj/src/a.ts" >>,
                         << Stat({1}, 10), Stat({1}, 10) >>),
                RawEvent("modify", << "/proj/src/a.ts", "/proj/Makefile" >>,
                         << StatFails, Stat({2}, 10) >>) }
    ELSE { RawEvent("create", << "/lib/b.ts" >>, << Stat({1}, 10) >>),
           RawEvent("remove", << "/lib/b.ts" >>, << StatFails >>) }

\* watchDir(root): one iteration of the for-await loop over the watcher,
\* for the raw notification event.
HandleNotification(root, event) ==
  LET out == ProcessPaths(event, 1, ignorePaths,
                          [fileMap |-> fileMap[root], published |-> <<>>])
  IN /\ fileMap' = [fileMap EXCEPT ![root] = out.fileMap]
     /\ watchLast' = [kind |-> "notification", root |-> root, event |-> event,
                      ignored |-> [i \in DOMAIN event.paths |->
                                     ShouldIgnore(event.paths[i], ignorePaths)],
                      before |-> fileMap[root],
                      stopped |-> { r \in DOMAIN watchStatus : watchStatus[r] = "stopped" },
                      published |-> out.published]

Notify(root) ==
  /\ watchStatus[root] = "watching"
  /\ \E event \in RawEvents(root) : HandleNotification(root, event)
  /\ UNCHANGED <<watchResolved, watchStatus, watchPrev, watchLog, ignorePaths, gitVars, buildVars,
                 consumerVars, insightsVars, configure>>

\* watchDir(root): reading the notification stream throws.
StreamFails(root) ==
  /\ watchStatus[root] = "watching"
  /\ watchStatus' = AfterFailure(watchStatus, root)
  /\ UNCHANGED <<watchResolved, fileMap, watchLast, watchPrev, watchLog, ignorePaths, gitVars,
                 buildVars, consumerVars, insightsVars, configure>>

InitWatch ==
  /\ configFile = DefaultConfig
  /\ subs = <<>> /\ invs = <<>> /\ evCount = 0 /\ createCount = 0 /\ setupDone = FALSE
  /\ gateUp = FALSE
  /\ gateConfig = DefaultConfig
  /\ inFocusMode = FALSE
  /\ now = Time(12, 0)
  /\ gateInbox = <<>>
  /\ gateLast = NoneHandled
  /\ lastFocus = "none"
  /\ pubCount = 0
  /\ silentResult = NotChecked
  /\ togglePc = "idle" /\ toggleCount = 0 /\ timers = 0
  /\ focusStarted = 0 /\ focusEnded = 0 /\ focusLog = <<>>
  /\ ProducersIdle
  /\ InsightsIdle
  /\ ConfigureIdle

NextWatch ==
  \/ WatchFiles
  \/ \E root \in DOMAIN watchStatus : ScanCompletes(root)
  \/ \E root \in DOMAIN watchStatus : Notify(root)
  \/ \E root \in DOMAIN watchStatus : StreamFails(root)

SpecWatch == InitWatch /\ [][NextWatch]_vars

(***************************************************************************)
(* Properties of the file watcher.                                         *)
(***************************************************************************)
\* The events the last notification published for a path.
PublishedFor(path) ==
  { i \in DOMAIN watchLast.published : watchLast.published[i].payload.path = path }

\* C12: for a path with a snapshot entry (oldModTime, oldSize), a modify
\* notification whose stat yields (newModTime, newSize) publishes one
\* file.modify event iff newModTime # oldModTime or newSize # oldSize, and
\* publishes nothing for the path when both are unchanged.
C12_ModifyPublishedIffChanged ==
  (watchLast.kind = "notification" /\ watchLast.event.kind = "modify") =>
    \A i \in DOMAIN watchLast.event.paths :
      LET path == watchLast.event.paths[i]
          stat == watchLast.event.stats[i]
          old == watchLast.before[path]
      IN (MapHas(watchLast.before, path) /\ stat.ok /\ stat.mtime # {}) =>
           IF stat.mtime # {old.mtime} \/ stat.size # old.size
             THEN /\ Cardinality(PublishedFor(path)) = 1
                  /\ \A k \in PublishedFor(path) :
                       watchLast.published[k].type = "file.modify"
             ELSE PublishedFor(path) = {}

\* A modify whose stat equals the snapshot entry was dropped, and the loop had
\* published for a modify that changed the size only.
C12_Witness ==
  /\ watchLast.kind = "notification"
  /\ watchLast.event = RawEvent("modify", << "/proj/src/a.ts" >>, << Stat({1}, 20) >>)
  /\ MapHas(watchLast.before, "/proj/src/a.ts")
  /\ watchLast.before["/proj/src/a.ts"] = [mtime |-> 1, size |-> 20]
  /\ watchLast.published = <<>>

\* Some pattern of the list occurs in the path, character by character.
OccursAt(path, pattern, offset) ==
  \A j \in 1..Len(pattern) : CharAt(path, offset + j) = CharAt(pattern, j)

SomePatternIsSubstring(path, ignore) ==
  \E k \in DOMAIN ignore :
    \E offset \in 0..(Len(path) - Len(ignore[k])) : OccursAt(path, ignore[k], offset)

C15_FailureStopsOnlyThatRoot ==
  [][\A root \in DOMAIN watchStatus :
       (watchStatus[root] # "stopped" /\ watchStatus'[root] = "stopped") =>
         /\ watchResolved'
         /\ \A other \in DOMAIN watchStatus \ {root} :
              /\ watchStatus'[other] = watchStatus[other]
              /\ fileMap'[other] = fileMap[other]]_vars

\* The loop of /lib handled a notification and published while the loop of
\* /proj was stopped.
C15_Witness ==
  /\ watchLast.kind = "notification"
  /\ watchLast.root = "/lib"
  /\ watchLast.stopped = {"/proj"}
  /\ watchLast.published # <<>>
  /\ watchStatus["/lib"] = "watching"
  /\ watchResolved

\* C26: after a create or modify notification whose stat succeeded, for a
\* path that is not ignored, the snapshot of the root maps the path to the
\* modification time and size stat gave; after a remove notification it has
\* no entry for the path; no other root's snapshot holds the path.
C26_SnapshotFollowsNotifications ==
  watchLast.kind = "notification" =>
    \A i \in DOMAIN watchLast.event.paths :
      LET path == watchLast.event.paths[i]
          stat == watchLast.event.stats[i]
          map == fileMap[watchLast.root]
      IN ~watchLast.ignored[i] =>
           /\ (watchLast.event.kind \in {"create", "modify"} /\ stat.ok) =>
                /\ MapHas(map, path)
                /\ map[path] = [mtime |-> MTimeOrZero(stat), size |-> stat.size]
           /\ watchLast.event.kind = "remove" => ~MapHas(map, path)
           /\ \A other \in DOMAIN fileMap \ {watchLast.root} :
                ~MapHas(fileMap[other], path)

\* C27: a remove notification for a path that is not ignored publishes
\* exactly one file.delete event for the path and leaves no snapshot entry
\* for it, whatever stat would give and whether or not there was an entry.
C27_RemovePublishesOneDelete ==
  (watchLast.kind = "notification" /\ watchLast.event.kind = "remove") =>
    \A i \in DOMAIN watchLast.event.paths :
      LET path == watchLast.event.paths[i]
      IN ~watchLast.ignored[i] =>
           /\ Cardinality(PublishedFor(path)) = 1
           /\ \A k \in PublishedFor(path) :
                /\ watchLast.published[k].type = "file.delete"
                /\ watchLast.published[k].payload.operation = "delete"
                /\ "size" \notin DOMAIN watchLast.published[k].payload
           /\ ~MapHas(fileMap[watchLast.root], path)

\* A remove of a file that had a snapshot entry, at a moment when stat of
\* the path fails: one file.delete, the entry is gone.
C27_Witness ==
  /\ watchLast.kind = "notification"
  /\ watchLast.event = RawEvent("remove", << "/proj/src/a.ts" >>, << StatFails >>)
  /\ MapHas(watchLast.before, "/proj/src/a.ts")
  /\ Len(watchLast.published) = 1
  /\ ~MapHas(fileMap["/proj"], "/proj/src/a.ts")

\* The substring of the path after its last `.`, empty when there is none.
AfterLastDot(path) ==
  IF Includes(path, ".")
    THEN LET parts == Split(path, ".") IN parts[Len(parts)]
    ELSE ""

\* C28: the extension of every published file-change event is the substring
\* of its path after the last `.`, and the empty string when the path has no
\* `.`.
C28_ExtensionIsAfterLastDot ==
  watchLast.kind = "notification" =>
    \A k \in DOMAIN watchLast.published :
      watchLast.published[k].payload.extension
        = AfterLastDot(watchLast.published[k].payload.path)

\* C29: a scan whose root can be listed never aborts: when the listing of a
\* subdirectory or the stat of a file fails, the entry is skipped, the other
\* files that are not ignored are recorded, and the loop of the root starts.
C29_ScanSurvivesBadEntry ==
  (watchLast.kind = "scan" /\ watchLast.root \notin watchLast.view.unreadable) =>
    /\ watchLast.started
    /\ (watchLast.root = "/proj" /\ "/proj/Makefile" \notin watchLast.view.gone) =>
         "/proj/Makefile" \in watchLast.recorded

\* C30: when stat fails for a path of a create or modify notification,
\* nothing is published for the path and its snapshot entry is as before; the
\* other paths of the batch are handled as usual, and the loop of the root
\* keeps watching.
C30_StatFailureSkipsOnlyThatPath ==
  /\ [](watchLast.kind = "notification"
          /\ watchLast.event.kind \in {"create", "modify"} =>
        \A i \in DOMAIN watchLast.event.paths :
          LET path == watchLast.event.paths[i]
              stat == watchLast.event.stats[i]
              map == fileMap[watchLast.root]
          IN ~watchLast.ignored[i] =>
               IF ~stat.ok
                 THEN /\ PublishedFor(path) = {}
                      /\ MapHas(map, path) <=> MapHas(watchLast.before, path)
                      /\ MapHas(map, path) => map[path] = watchLast.before[path]
                 ELSE (watchLast.event.kind = "create"
                         \/ ~Unchanged(watchLast.before, path, stat)) =>
                        Cardinality(PublishedFor(path)) = 1)
  /\ [][(watchLast'.kind = "notification" /\ watchLast' # watchLast) =>
          watchStatus'[watchLast'.root] = "watching"]_vars

\* In a batch of two paths stat failed for the first; the second was
\* published.
C30_Witness ==
  /\ watchLast.kind = "notification"
  /\ watchLast.event = RawEvent("modify", << "/proj/src/a.ts", "/proj/Makefile" >>,
                                << StatFails, Stat({2}, 10) >>)
  /\ watchLast.ignored = << FALSE, FALSE >>
  /\ Len(watchLast.published) = 1
  /\ watchLast.published[1].payload.path = "/proj/Makefile"
  /\ MapHas(fileMap["/proj"], "/proj/src/a.ts")

(***************************************************************************)
(* The watcher on root /proj with ignore list [node_modules].              *)
(***************************************************************************)
ProjEvents ==
  { RawEvent(kind, << "/proj/src/a.ts" >>, << stat >>) :
      kind \in {"create", "modify"}, stat \in { Stat({1}, 10), Stat({2}, 10) } }
  \cup { RawEvent("create", << "/proj/node_modules/x.txt" >>, << Stat({1}, 10) >>),
         RawEvent("remove", << "/proj/src/a.ts" >>, << StatFails >>) }

\* The events one notification published, each with the position of the
\* notification in the order the watcher reported them and with its kind.
Logged(log, kind, events) ==
  [k \in DOMAIN events |-> [seq |-> log.seen + 1, kind |-> kind, event |-> events[k]]]

\* The events of a notification reach the broker before those of the
\* notifications read before it.
PublishBeforeEarlier(log, kind, events) ==
  [seen |-> log.seen + 1, published |-> Logged(log, kind, events) \o log.published]

\* watchDir: the body of the for-await loop awaits stat and calls
\* broker.publish before the next notification is read from the watcher, so
\* the broker receives the events of a notification after those of every
\* notification read before it.
PublishInOrder(log, kind, events) ==
  [seen |-> log.seen + 1, published |-> log.published \o Logged(log, kind, events)]

\* watchDir("/proj"): one iteration of the loop; the notification handled
\* before it is kept, and the events published are logged.
ProjNotify ==
  /\ watchStatus["/proj"] = "watching"
  /\ watchLog.seen < MaxNotifications
  /\ \E event \in ProjEvents : HandleNotification("/proj", event)
  /\ watchPrev' = watchLast
  /\ watchLog' = PublishInOrder(watchLog, watchLast'.event.kind, watchLast'.published)
  /\ UNCHANGED <<watchResolved, watchStatus, ignorePaths, gitVars, buildVars, consumerVars, insightsVars, configure>>

\* watchFiles(broker, ["/proj"], ["node_modules"]) has returned.
InitProj ==
  /\ configFile = DefaultConfig
  /\ subs = <<>> /\ invs = <<>> /\ evCount = 0 /\ createCount = 0 /\ setupDone = FALSE
  /\ gateUp = FALSE
  /\ gateConfig = DefaultConfig
  /\ inFocusMode = FALSE
  /\ now = Time(12, 0)
  /\ gateInbox = <<>>
  /\ gateLast = NoneHandled
  /\ lastFocus = "none"
  /\ pubCount = 0
  /\ silentResult = NotChecked
  /\ togglePc = "idle" /\ toggleCount = 0 /\ timers = 0
  /\ focusStarted = 0 /\ focusEnded = 0 /\ focusLog = <<>>
  /\ GitIdle /\ BuildsIdle
  /\ InsightsIdle
  /\ ConfigureIdle
  /\ watchResolved = TRUE
  /\ ignorePaths = << "node_modules" >>
  /\ watchStatus = [root \in {"/proj"} |-> "scanning"]
  /\ fileMap = [root \in {"/proj"} |-> <<>>]
  /\ watchLast = NothingYet /\ watchPrev = NothingYet
  /\ watchLog = EmptyLog

NextProj ==
  \/ ScanCompletes("/proj")
  \/ ProjNotify

SpecProj == InitProj /\ [][NextProj]_vars

\* C13: watching /proj with ignore list [node_modules], a create of
\* /proj/node_modules/x.txt publishes nothing; a create of /proj/src/a.ts
\* publishes exactly one file.create with extension ts; a modify of
\* /proj/src/a.ts that follows the create of the new file with the same
\* modification time and size publishes nothing.
C13_ProjScenario ==
  watchLast.kind = "notification" =>
    /\ watchLast.event.paths = << "/proj/node_modules/x.txt" >> =>
         watchLast.published = <<>>
    /\ (/\ watchLast.event.kind = "create"
        /\ watchLast.event.paths = << "/proj/src/a.ts" >>) =>
         /\ Len(watchLast.published) = 1
         /\ watchLast.published[1].type = "file.create"
         /\ watchLast.published[1].payload.extension = "ts"
    /\ (/\ watchLast.event.kind = "modify"
        /\ watchLast.event.paths = << "/proj/src/a.ts" >>
        /\ watchPrev.kind = "notification"
        /\ watchPrev.event.kind = "create"
        /\ watchPrev.event.paths = << "/proj/src/a.ts" >>
        /\ ~MapHas(watchPrev.before, "/proj/src/a.ts")
        /\ watchPrev.event.stats = watchLast.event.stats) =>
         watchLast.published = <<>>

\* The file.changes type watchDir publishes for a raw notification kind.
TypeFor(kind) == IF kind = "remove" THEN "file.delete" ELSE "file." \o kind

\* C31: the events a watch loop published for one path are in the order in
\* which the watcher reported the notifications they come from, and each has
\* the type of its notification: no event of a later notification precedes
\* an event of an earlier one.
C31_PerPathOrderIsNotificationOrder ==
  /\ \A k \in DOMAIN watchLog.published :
       /\ watchLog.published[k].seq \in 1..watchLog.seen
       /\ watchLog.published[k].event.type = TypeFor(watchLog.published[k].kind)
  /\ \A j, k \in DOMAIN watchLog.published :
       (j < k /\ watchLog.published[j].event.payload.path
                   = watchLog.published[k].event.payload.path) =>
         watchLog.published[j].seq <= watchLog.published[k].seq

\* A create, a modify and a remove of /proj/src/a.ts, reported in this
\* order, were published as file.create, file.modify, file.delete.
C31_Witness ==
  /\ Len(watchLog.published) = 3
  /\ \A k \in 1..3 :
       /\ watchLog.published[k].seq = k
       /\ watchLog.published[k].event.payload.path = "/proj/src/a.ts"
  /\ watchLog.published[1].event.type = "file.create"
  /\ watchLog.published[2].event.type = "file.modify"
  /\ watchLog.published[3].event.type = "file.delete"

(***************************************************************************)
(* The git poller: runGit, watchGit, checkGitStatus.                       *)
(***************************************************************************)
IsSpace(c) == c = " " \/ c = "\n"

\* String.prototype.trim
RECURSIVE Trim(_)
Trim(s) ==
  IF Len(s) = 0 THEN s
  ELSE IF IsSpace(CharAt(s, 1)) THEN Trim(SubSeq(s, 2, Len(s)))
  ELSE IF IsSpace(CharAt(s, Len(s))) THEN Trim(SubSeq(s, 1, Len(s) - 1))
  ELSE s

\* What command.output() gives for a git command.
Process(stdout, stderr) == [stdout |-> stdout, stderr |-> stderr]
NotARepository == Process("", "fatal: not a git repository")

BranchOutputs == { Process("main\n", ""), Process("dev\n", ""), NotARepository }
HashOutputs == { Process("a1\n", ""), Process("b2\n", ""), NotARepository }
MessageOutputs == { Process("fix bug\n\n", ""), NotARepository }

\* runGit: throws the text of stderr when there is any, else gives stdout
\* trimmed.
RunGit(process) ==
  IF Len(process.stderr) > 0
    THEN [ok |-> FALSE, out |-> process.stderr]
    ELSE [ok |-> TRUE, out |-> Trim(process.stdout)]

GitEvent(type, payload) == Event(0, "git.events", type, payload)

CheckoutPayload(branch) == [operation |-> "checkout", branch |-> branch]

\* The commit event without the commit message.
CommitPayloadNoMessage(message, branch, hash) ==
  [operation |-> "commit", message |-> "", branch |-> branch, hash |-> hash]

CommitPayload(message, branch, hash) ==
  [operation |-> "commit", message |-> message, branch |-> branch, hash |-> hash]

\* Where a tick stands when it leaves the try block or enters the catch.
TickResult(branch, hash, published, failed) ==
  [lastBranch |-> branch, lastCommitHash |-> hash, published |-> published,
   failed |-> failed]

\* The hash carried on is the one just observed although its commit event
\* was not published.
HashAfterFailedCommitAdvances(hash0, observed) == observed

\* lastCommitHash = currentCommitHash follows the message query and the
\* publish of git.commit: when either fails the hash carried on is the old one.
HashAfterFailedCommit(hash0, observed) == hash0

\* checkGitStatus, the try block. in gives what the three git commands
\* output and whether each of the two publish calls succeeds.
CheckGitStatus(branch0, hash0, in) ==
  LET currentBranch == RunGit(in.branch)
      currentCommitHash == RunGit(in.hash)
      commitMessage == RunGit(in.message)
  IN IF ~currentBranch.ok THEN TickResult(branch0, hash0, <<>>, TRUE)
     ELSE IF currentBranch.out # branch0 /\ ~in.publishOk[1]
       THEN TickResult(branch0, hash0, <<>>, TRUE)
     ELSE LET published1 ==
                IF currentBranch.out # branch0
                  THEN << GitEvent("git.checkout", CheckoutPayload(currentBranch.out)) >>
                  ELSE <<>>
          IN IF ~currentCommitHash.ok
               THEN TickResult(currentBranch.out, hash0, published1, TRUE)
             ELSE IF currentCommitHash.out = hash0
               THEN TickResult(currentBranch.out, hash0, published1, FALSE)
             ELSE IF ~commitMessage.ok \/ ~in.publishOk[2]
               THEN TickResult(currentBranch.out,
                               HashAfterFailedCommit(hash0, currentCommitHash.out),
                               published1, TRUE)
             ELSE TickResult(currentBranch.out, currentCommitHash.out,
                             published1 \o
                               << GitEvent("git.commit",
                                           CommitPayload(commitMessage.out,
                                                         currentBranch.out,
                                                         currentCommitHash.out)) >>,
                             FALSE)

\* The next tick is scheduled inside the try block, after the last publish.
ScheduledUnlessFailed(failed) == IF failed THEN 0 ELSE 1

\* setTimeout(() => checkGitStatus(...), 5000) follows the try/catch: one
\* timeout per tick, whether or not the tick failed.
ScheduledAfter(failed) == 1

\* The poller starts when the commit hash could be read, whatever the branch
\* query gave.
StartsPollerIfHashRead(hash, branch) == hash.ok

\* watchGit: both initial queries are inside one try whose catch returns.
StartsPoller(hash, branch) == hash.ok /\ branch.ok

\* watchGit: the two initial queries; the first checkGitStatus call is made
\* at once when both succeed.
WatchGit ==
  /\ gitStatus = "off"
  /\ \E hashOut \in HashOutputs, branchOut \in BranchOutputs :
       LET hash == RunGit(hashOut)
           branch == RunGit(branchOut)
       IN /\ IF StartsPoller(hash, branch)
               THEN /\ lastCommitHash' = hash.out
                    /\ lastBranch' = branch.out
                    /\ gitStatus' = "polling"
                    /\ gitTimers' = 1
               ELSE /\ gitStatus' = "notrepo"
                    /\ UNCHANGED <<lastCommitHash, lastBranch, gitTimers>>
          /\ gitLast' = [kind |-> "init", hash |-> hashOut, branch |-> branchOut]
  /\ UNCHANGED <<gitTicks, watchVars, buildVars, consumerVars, insightsVars, configure>>

TickInputs ==
  [branch : BranchOutputs, hash : HashOutputs, message : MessageOutputs,
   publishOk : { << TRUE, TRUE >>, << FALSE, TRUE >>, << TRUE, FALSE >> }]

\* One run of checkGitStatus, from its call to its setTimeout.
GitTick ==
  /\ gitTimers > 0
  /\ \E in \in TickInputs :
       LET tick == CheckGitStatus(lastBranch, lastCommitHash, in)
       IN /\ lastBranch' = tick.lastBranch
          /\ lastCommitHash' = tick.lastCommitHash
          /\ gitLast' = [kind |-> "tick",
                         before |-> [branch |-> lastBranch, hash |-> lastCommitHash],
                         in |-> in, published |-> tick.published,
                         failed |-> tick.failed]
          /\ gitTimers' = gitTimers - 1 + ScheduledAfter(tick.failed)
  /\ gitTicks' = 1 - gitTicks
  /\ UNCHANGED <<gitStatus, watchVars, buildVars, consumerVars, insightsVars, configure>>

InitGit ==
  /\ configFile = DefaultConfig
  /\ subs = <<>> /\ invs = <<>> /\ evCount = 0 /\ createCount = 0 /\ setupDone = FALSE
  /\ gateUp = FALSE
  /\ gateConfig = DefaultConfig
  /\ inFocusMode = FALSE
  /\ now = Time(12, 0)
  /\ gateInbox = <<>>
  /\ gateLast = NoneHandled
  /\ lastFocus = "none"
  /\ pubCount = 0
  /\ silentResult = NotChecked
  /\ togglePc = "idle" /\ toggleCount = 0 /\ timers = 0
  /\ focusStarted = 0 /\ focusEnded = 0 /\ focusLog = <<>>
  /\ ProducersIdle
  /\ InsightsIdle
  /\ ConfigureIdle

NextGit ==
  \/ WatchGit
  \/ GitTick

SpecGit == InitGit /\ [][NextGit]_vars

\* A scheduled timeout fires after its delay.
SpecGitLive == SpecGit /\ WF_vars(GitTick)

(***************************************************************************)
(* Properties of the git poller.                                           *)
(***************************************************************************)
Succeeded(process) == process.stderr = ""
Observed(process) == Trim(process.stdout)

\* Every git query the last tick needed succeeded: branch, hash, and the
\* commit message when the hash differs.
QueriesSucceeded ==
  /\ Succeeded(gitLast.in.branch)
  /\ Succeeded(gitLast.in.hash)
  /\ Observed(gitLast.in.hash) # gitLast.before.hash => Succeeded(gitLast.in.message)

\* Every publish the last tick needed succeeded.
PublishesSucceeded ==
  /\ Observed(gitLast.in.branch) # gitLast.before.branch => gitLast.in.publishOk[1]
  /\ Observed(gitLast.in.hash) # gitLast.before.hash => gitLast.in.publishOk[2]

\* The last tick published git.checkout iff the branch differs and git.commit
\* (with branch, hash and message) iff the hash differs, checkout first, and
\* carries the observed branch and hash into the next tick.
TickPublishedTheDifferences ==
  LET branch == Observed(gitLast.in.branch)
      hash == Observed(gitLast.in.hash)
      checkout == << GitEvent("git.checkout",
                              [operation |-> "checkout", branch |-> branch]) >>
      commit == << GitEvent("git.commit",
                            [operation |-> "commit",
                             message |-> Observed(gitLast.in.message),
                             branch |-> branch, hash |-> hash]) >>
  IN /\ gitLast.published =
          (IF branch # gitLast.before.branch THEN checkout ELSE <<>>)
            \o (IF hash # gitLast.before.hash THEN commit ELSE <<>>)
     /\ lastBranch = branch
     /\ lastCommitHash = hash

CheckedOut ==
  { gitLast.published[i].payload.branch :
      i \in { j \in DOMAIN gitLast.published : gitLast.published[j].type = "git.checkout" } }

\* The places in what the last tick published that hold git.commit for hash.
CommitsFor(hash) ==
  { i \in DOMAIN gitLast.published :
      /\ gitLast.published[i].type = "git.commit"
      /\ gitLast.published[i].payload.hash = hash }

\* The last tick observed a new hash and its commit-message query failed.
MessageQueryFailed ==
  /\ gitLast.kind = "tick"
  /\ Succeeded(gitLast.in.branch)
  /\ Observed(gitLast.in.branch) # gitLast.before.branch => gitLast.in.publishOk[1]
  /\ Succeeded(gitLast.in.hash)
  /\ Observed(gitLast.in.hash) # gitLast.before.hash
  /\ ~Succeeded(gitLast.in.message)

\* What holds of a tick (primed) that follows a tick that failed part-way
\* (unprimed); ready tells which ticks must publish the commit.
AfterPartialFailure(ready) ==
  (gitTicks' # gitTicks /\ gitLast.kind = "tick") =>
    /\ gitLast.failed =>
         \A i \in DOMAIN gitLast'.published :
           gitLast'.published[i].type = "git.checkout" =>
             gitLast'.published[i].payload.branch \notin CheckedOut
    /\ MessageQueryFailed =>
         /\ lastCommitHash = gitLast.before.hash
         /\ (ready /\ Observed(gitLast'.in.hash) = Observed(gitLast.in.hash)) =>
              /\ Cardinality(CommitsFor(Observed(gitLast.in.hash))') = 1
              /\ lastCommitHash' = Observed(gitLast.in.hash)
         /\ (~QueriesSucceeded') => lastCommitHash' = lastCommitHash

C32_FailedInitNeverStartsPoller ==
  /\ [](gitLast.kind = "init" =>
          IF Succeeded(gitLast.hash) /\ Succeeded(gitLast.branch)
            THEN /\ gitStatus = "polling" /\ gitTimers = 1
                 /\ lastCommitHash = Observed(gitLast.hash)
                 /\ lastBranch = Observed(gitLast.branch)
            ELSE gitStatus = "notrepo")
  /\ [](gitStatus = "notrepo" => gitTimers = 0 /\ gitLast.kind = "init")
  /\ [][(gitLast.kind = "init" /\ gitLast'.kind = "tick") =>
          gitLast'.before = [branch |-> Observed(gitLast.branch),
                             hash |-> Observed(gitLast.hash)]]_vars

\* The hash was read and the branch query failed: the poller did not start.
C32_Witness ==
  /\ gitLast.kind = "init"
  /\ Succeeded(gitLast.hash) /\ ~Succeeded(gitLast.branch)
  /\ gitStatus = "notrepo" /\ gitTimers = 0

\* C17: once the poller has started, exactly one next tick is scheduled
\* after every tick, failed or not, and the poller keeps ticking for ever.
C17_PollerKeepsTicking ==
  /\ [](gitStatus = "polling" => gitTimers = 1)
  /\ [](gitStatus = "polling" => (<>(gitTicks = 0) /\ <>(gitTicks = 1)))

\* A tick whose git queries succeeded and whose publish failed has scheduled
\* the next tick.
C17_Witness ==
  /\ gitLast.kind = "tick"
  /\ gitLast.failed
  /\ Succeeded(gitLast.in.branch) /\ Succeeded(gitLast.in.hash)
  /\ Succeeded(gitLast.in.message)
  /\ gitStatus = "polling"
  /\ gitTimers = 1

(***************************************************************************)
(* The build-file classifier: preprocessBuildConfig, watchBuilds,          *)
(* handleBuildFileChange.                                                  *)
(***************************************************************************)
\* String.prototype.replace with a one-character string pattern: the first
\* occurrence only.
ReplaceFirst(s, c, by) ==
  LET at == { i \in 1..Len(s) : CharAt(s, i) = c }
  IN IF at = {} THEN s
     ELSE LET i == CHOOSE x \in at : \A y \in at : x <= y
          IN SubSeq(s, 1, i - 1) \o by \o SubSeq(s, i + 1, Len(s))

\* new RegExp(`^${file.replace("*", ".*")}$`, "i"): the source of the pattern
RegExpSource(file) == "^" \o ReplaceFirst(file, "*", ".*") \o "$"

\* The pattern between ^ and $ as a sequence of atoms: a character or `.`
\* (any character), each with or without a following `*`. The configured
\* names hold letters, `.`, `-` and `*` only.
RECURSIVE Atoms(_)
Atoms(body) ==
  IF Len(body) = 0 THEN <<>>
  ELSE LET star == Len(body) >= 2 /\ CharAt(body, 2) = "*"
       IN << [ch |-> CharAt(body, 1), star |-> star] >>
            \o Atoms(SubSeq(body, IF star THEN 3 ELSE 2, Len(body)))

\* The atoms match the whole of s, letters compared without case (flag i).
RECURSIVE MatchAtoms(_, _)
MatchAtoms(atoms, s) ==
  IF atoms = <<>> THEN Len(s) = 0
  ELSE LET atom == Head(atoms)
           first == Len(s) > 0
                      /\ (atom.ch = "." \/ LowerChar(atom.ch) = LowerChar(CharAt(s, 1)))
       IN IF atom.star
            THEN MatchAtoms(Tail(atoms), s)
                   \/ (first /\ MatchAtoms(atoms, SubSeq(s, 2, Len(s))))
            ELSE first /\ MatchAtoms(Tail(atoms), SubSeq(s, 2, Len(s)))

\* RegExp.prototype.test for a source of the form ^...$
RegExpTest(source, s) == MatchAtoms(Atoms(SubSeq(source, 2, Len(source) - 1)), s)

\* path.basename
Basename(path) ==
  LET parts == Split(path, "/") IN parts[Len(parts)]

\* config/buildFiles.json: language -> file names, in the order of the file.
Language(language, files) == [language |-> language, files |-> files]

BuildFileConfigs ==
  { << Language("node", << "package.json" >>), Language("csharp", << "*.csproj" >>) >>,
    << Language("csharp", << "*.csproj" >>),
       Language("msbuild", << "*proj", "Makefile" >>) >> }

\* loadBuildFileConfig: the parsed file, {} when the file is not found, or
\* the error thrown again.
BuildFileReads ==
  { [kind |-> "found", config |-> c] : c \in BuildFileConfigs }
  \cup { [kind |-> "notfound", config |-> <<>>], [kind |-> "error", config |-> <<>>] }

\* Object.entries(buildFileConfig) with the inner loop over files: the
\* (language, file) pairs in order.
RECURSIVE Entries(_)
Entries(config) ==
  IF config = <<>> THEN <<>>
  ELSE [i \in DOMAIN Head(config).files |->
          [language |-> Head(config).language, file |-> Head(config).files[i]]]
       \o Entries(Tail(config))

HasStar(file) == Includes(file, "*")

\* preprocessBuildConfig: the lookup of exact names and the list of
\* [pattern, language] pairs.
PreprocessBuildConfig(config) ==
  LET patterned == SelectSeq(Entries(config), LAMBDA e : HasStar(e.file))
      exact == SelectSeq(Entries(config), LAMBDA e : ~HasStar(e.file))
  IN [lookup |-> { exact[i].file : i \in DOMAIN exact },
      patterns |-> [i \in DOMAIN patterned |->
                      [regex |-> RegExpSource(patterned[i].file),
                       language |-> patterned[i].language]]]

\* handleBuildFileChange: the build event it publishes.
HandleBuildFileChange(fileName, language) ==
  Event(0, "build.events", "build.file_change",
        [operation |-> "start", buildFile |-> fileName, language |-> language])

\* The loop over patterns without its return: every matching pattern
\* publishes.
RECURSIVE TestPatternsAll(_, _, _)
TestPatternsAll(patterns, fileName, i) ==
  IF i > Len(patterns) THEN [tests |-> <<>>, languages |-> <<>>]
  ELSE LET matched == RegExpTest(patterns[i].regex, fileName)
           rest == TestPatternsAll(patterns, fileName, i + 1)
       IN [tests |-> << [pattern |-> i, matched |-> matched] >> \o rest.tests,
           languages |-> (IF matched THEN << patterns[i].language >> ELSE <<>>)
                           \o rest.languages]

\* for (const [pattern, language] of patterns), from pattern i on: the tests
\* made and the language handed to handleBuildFileChange, if any.
RECURSIVE TestPatterns(_, _, _)
TestPatterns(patterns, fileName, i) ==
  IF i > Len(patterns) THEN [tests |-> <<>>, languages |-> <<>>]
  ELSE IF RegExpTest(patterns[i].regex, fileName)
    THEN [tests |-> << [pattern |-> i, matched |-> TRUE] >>,
          languages |-> << patterns[i].language >>]
  ELSE LET rest == TestPatterns(patterns, fileName, i + 1)
       IN [rest EXCEPT !.tests = << [pattern |-> i, matched |-> FALSE] >> \o @]

\* The subscription handler of watchBuilds for one delivered event. When
\* lookup is undefined, lookup.has throws a TypeError.
BuildHandler(cls, fileName) ==
  IF ~cls.resolved
    THEN [threw |-> TRUE, published |-> <<>>, tests |-> <<>>]
  ELSE IF fileName \in cls.lookup
    THEN [threw |-> FALSE, tests |-> <<>>,
          published |-> << HandleBuildFileChange(fileName, Undefined) >>]
  ELSE LET found == TestPatterns(cls.patterns, fileName, 1)
       IN [threw |-> FALSE, tests |-> found.tests,
           published |-> [k \in DOMAIN found.languages |->
                            HandleBuildFileChange(fileName, found.languages[k])]]

\* watchBuilds of main.ts: `await preprocessBuildConfig()`, then subscribe.
\* An error reading the file leaves the function before it subscribes.
WatchBuildsMain ==
  /\ watchBuildsFrom = NothingYet
  /\ \E read \in BuildFileReads :
       /\ watchBuildsFrom' = [kind |-> "main.ts", read |-> read]
       /\ classifier' =
            IF read.kind = "error"
              THEN [subscribed |-> FALSE, resolved |-> FALSE, lookup |-> {},
                    patterns |-> <<>>]
              ELSE [subscribed |-> TRUE, resolved |-> TRUE,
                    lookup |-> PreprocessBuildConfig(read.config).lookup,
                    patterns |-> PreprocessBuildConfig(read.config).patterns]
  /\ UNCHANGED <<buildLast, watchVars, gitVars, consumerVars, insightsVars, configure>>

\* watchBuilds of config/watchers.ts: `const { lookup, patterns } =
\* preprocessBuildConfig()` destructures the promise, not its value: both
\* names are undefined, and the handler is subscribed all the same.
WatchBuilds ==
  /\ watchBuildsFrom = NothingYet
  /\ \E read \in BuildFileReads :
       watchBuildsFrom' = [kind |-> "config/watchers.ts", read |-> read]
  /\ classifier' = [subscribed |-> TRUE, resolved |-> FALSE, lookup |-> {},
                    patterns |-> <<>>]
  /\ UNCHANGED <<buildLast, watchVars, gitVars, consumerVars, insightsVars, configure>>

\* The file-change events the watcher publishes.
BuildInputs ==
  { FileEvent("file." \o op, FilePayload(path, op, Extension(path), 10)) :
      op \in {"create", "modify"},
      path \in {"/proj/package.json", "/proj/App.csproj", "/proj/foo.CSPROJ",
                "/proj/Foo.csproj.bak", "/proj/Foo-csproj", "/proj/Makefile",
                "/proj/src/a.ts"} }
  \cup { FileEvent("file.delete", DeletePayload(path, Extension(path))) :
           path \in {"/proj/package.json", "/proj/App.csproj"} }

\* A file-change event is published: the broker hands it to the handler when
\* its type is in the subscription's eventTypes.
PublishFileChange ==
  /\ classifier # NothingYet
  /\ classifier.subscribed
  /\ \E event \in BuildInputs :
       LET fileName == Basename(event.payload.path)
       IN buildLast' =
            IF event.type \in {"file.create", "file.modify"}
              THEN [kind |-> "event", event |-> event, delivered |-> TRUE,
                    fileName |-> fileName, result |-> BuildHandler(classifier, fileName)]
              ELSE [kind |-> "event", event |-> event, delivered |-> FALSE,
                    fileName |-> fileName,
                    result |-> [threw |-> FALSE, published |-> <<>>, tests |-> <<>>]]
  /\ UNCHANGED <<watchBuildsFrom, classifier, watchVars, gitVars, consumerVars, insightsVars, configure>>

InitBuild ==
  /\ configFile = DefaultConfig
  /\ subs = <<>> /\ invs = <<>> /\ evCount = 0 /\ createCount = 0 /\ setupDone = FALSE
  /\ gateUp = FALSE
  /\ gateConfig = DefaultConfig
  /\ inFocusMode = FALSE
  /\ now = Time(12, 0)
  /\ gateInbox = <<>>
  /\ gateLast = NoneHandled
  /\ lastFocus = "none"
  /\ pubCount = 0
  /\ silentResult = NotChecked
  /\ togglePc = "idle" /\ toggleCount = 0 /\ timers = 0
  /\ focusStarted = 0 /\ focusEnded = 0 /\ focusLog = <<>>
  /\ ProducersIdle
  /\ InsightsIdle
  /\ ConfigureIdle

NextBuild ==
  \/ WatchBuildsMain
  \/ WatchBuilds
  \/ PublishFileChange

SpecBuild == InitBuild /\ [][NextBuild]_vars

(***************************************************************************)
(* Properties of the build-file classifier.                                *)
(***************************************************************************)
\* The patterns that match the last event's basename.
Matching ==
  { i \in DOMAIN classifier.patterns :
      RegExpTest(classifier.patterns[i].regex, buildLast.fileName) }

\* C18: with the classifier subscribed by main.ts's watchBuilds, a
\* file.create or file.modify event produces at most one build.file_change
\* event: for a basename in the exact-match set one without language and no
\* pattern is tested; otherwise one with the language of the first matching
\* pattern and no later pattern is tested; none when nothing matches. A
\* file.delete event produces none.
C18_AtMostOneBuildEvent ==
  (buildLast.kind = "event" /\ watchBuildsFrom.kind = "main.ts") =>
    LET name == buildLast.fileName
        published == buildLast.result.published
        tests == buildLast.result.tests
    IN IF buildLast.event.type = "file.delete" THEN published = <<>>
       ELSE /\ Len(published) <= 1
            /\ ~buildLast.result.threw
            /\ name \in classifier.lookup =>
                 /\ published = << HandleBuildFileChange(name, Undefined) >>
                 /\ tests = <<>>
            /\ (name \notin classifier.lookup /\ Matching # {}) =>
                 LET first == CHOOSE i \in Matching : \A j \in Matching : i <= j
                 IN /\ published =
                         << HandleBuildFileChange(name, classifier.patterns[first].language) >>
                    /\ DOMAIN tests = 1..first
            /\ (name \notin classifier.lookup /\ Matching = {}) => published = <<>>

\* App.csproj matches both *.csproj (csharp) and *proj (msbuild): one event
\* with the first language, the second pattern not tested.
C18_Witness ==
  /\ buildLast.kind = "event"
  /\ watchBuildsFrom.kind = "main.ts"
  /\ buildLast.fileName = "App.csproj"
  /\ Matching = {1, 2}
  /\ Len(buildLast.result.tests) = 1
  /\ buildLast.result.published = << HandleBuildFileChange("App.csproj", "csharp") >>

\* The configured names that hold a `*`, in the order of the pattern list.
StarNames ==
  SelectSeq(Entries(watchBuildsFrom.read.config), LAMBDA e : HasStar(e.file))

\* name matches s when each `*` stands for zero or more characters and every
\* other character stands for itself, letters compared without case.
RECURSIVE GlobMatches(_, _)
GlobMatches(name, s) ==
  IF Len(name) = 0 THEN Len(s) = 0
  ELSE IF CharAt(name, 1) = "*"
    THEN GlobMatches(SubSeq(name, 2, Len(name)), s)
           \/ (Len(s) > 0 /\ GlobMatches(name, SubSeq(s, 2, Len(s))))
  ELSE /\ Len(s) > 0
       /\ LowerChar(CharAt(name, 1)) = LowerChar(CharAt(s, 1))
       /\ GlobMatches(SubSeq(name, 2, Len(name)), SubSeq(s, 2, Len(s)))

\* C19: a configured name with a `*` matches a basename iff, ignoring case,
\* the basename is the name with each `*` standing for zero or more
\* characters and every other character taken literally.
C19_StarIsTheOnlyWildcard ==
  buildLast.kind = "event" =>
    \A k \in DOMAIN buildLast.result.tests :
      LET test == buildLast.result.tests[k]
      IN test.matched <=> GlobMatches(StarNames[test.pattern].file, buildLast.fileName)

\* C20: with exact name package.json and pattern *.csproj for csharp, as set
\* up by watchBuilds, a file.create for package.json yields exactly one build
\* event without language and a file.create for App.csproj exactly one with
\* language csharp.
C20_ConfiguredClassifierScenario ==
  (/\ buildLast.kind = "event"
   /\ buildLast.event.type = "file.create"
   /\ watchBuildsFrom.read.kind = "found"
   /\ watchBuildsFrom.read.config =
        << Language("node", << "package.json" >>), Language("csharp", << "*.csproj" >>) >>) =>
    /\ buildLast.fileName = "package.json" =>
         buildLast.result.published = << HandleBuildFileChange("package.json", Undefined) >>
    /\ buildLast.fileName = "App.csproj" =>
         buildLast.result.published = << HandleBuildFileChange("App.csproj", "csharp") >>

(***************************************************************************)
(* The insights aggregator: setupInsights and generateDailySummary.        *)
(***************************************************************************)
\* map.set(key, (map.get(key) || 0) + 1)
Increment(map, key) ==
  IF \E i \in DOMAIN map : map[i].key = key
    THEN [i \in DOMAIN map |->
            IF map[i].key = key THEN [map[i] EXCEPT !.count = @ + 1] ELSE map[i]]
    ELSE Append(map, [key |-> key, count |-> 1])

\* The handler of file.changes, at wall-clock hour and day of the week.
OnFileChange(data, fileEvent, hour, day) ==
  [data EXCEPT
     !.fileChanges.byExtension =
        IF fileEvent.extension # "" THEN Increment(@, fileEvent.extension) ELSE @,
     !.fileChanges.byHour = Increment(@, hour),
     !.fileChanges.byDay = Increment(@, day)]

\* The handler of focus.state. A session holds its duration; its start and
\* end are timestamps, which the model leaves out.
OnFocusState(data, focusEvent) ==
  IF focusEvent.state = "focus" /\ focusEvent.duration # 0
    THEN [data EXCEPT
            !.focus.sessions = Append(@, [duration |-> focusEvent.duration]),
            !.focus.totalDuration = @ + focusEvent.duration]
    ELSE data

\* The handler of git.events.
OnGitEvent(data, gitEvent) ==
  IF gitEvent.operation = "commit" THEN [data EXCEPT !.git.commits = @ + 1]
  ELSE IF gitEvent.operation = "push" THEN [data EXCEPT !.git.pushes = @ + 1]
  ELSE IF gitEvent.operation = "pull" THEN [data EXCEPT !.git.pulls = @ + 1]
  ELSE data

\* The subscription that takes an event of the given topic.
Observe(data, event, hour, day) ==
  IF event.topic = "file.changes" THEN OnFileChange(data, event.payload, hour, day)
  ELSE IF event.topic = "focus.state" THEN OnFocusState(data, event.payload)
  ELSE IF event.topic = "git.events" THEN OnGitEvent(data, event.payload)
  ELSE data

\* Array.from(values()).reduce((total, count) => total + count, 0)
RECURSIVE SumCounts(_)
SumCounts(map) ==
  IF map = <<>> THEN 0 ELSE Head(map).count + SumCounts(Tail(map))

\* Array.prototype.sort((a, b) => b[1] - a[1]): by count, largest first,
\* entries of equal count in their earlier order.
RECURSIVE SortByCount(_)
SortByCount(map) ==
  IF map = <<>> THEN <<>>
  ELSE LET rest == SortByCount(Tail(map))
           above == SelectSeq(rest, LAMBDA e : e.count > Head(map).count)
           below == SelectSeq(rest, LAMBDA e : e.count <= Head(map).count)
       IN above \o << Head(map) >> \o below

\* slice(0, 5)
TopFive(map) == SubSeq(map, 1, IF Len(map) < 5 THEN Len(map) ELSE 5)

RECURSIVE ExtensionLines(_)
ExtensionLines(map) ==
  IF map = <<>> THEN ""
  ELSE "  - " \o Head(map).key \o ": " \o NumStr(Head(map).count) \o "\n"
         \o ExtensionLines(Tail(map))

\* The text generateDailySummary builds (without its pictographs).
SummaryText(data) ==
  LET sortedExtensions == TopFive(SortByCount(data.fileChanges.byExtension))
  IN "Your Development Summary for Today\n\n"
       \o "File Changes: " \o NumStr(SumCounts(data.fileChanges.byExtension)) \o "\n"
       \o (IF Len(sortedExtensions) > 0
             THEN "Top file types:\n" \o ExtensionLines(sortedExtensions) ELSE "")
       \o "\nFocus Sessions: " \o NumStr(Len(data.focus.sessions)) \o "\n"
       \o "Total Focus Time: " \o NumStr(data.focus.totalDuration \div 60000) \o " minutes\n"
       \o "\nGit Activity:\n"
       \o "  - Commits: " \o NumStr(data.git.commits) \o "\n"
       \o "  - Pushes: " \o NumStr(data.git.pushes) \o "\n"
       \o "  - Pulls: " \o NumStr(data.git.pulls) \o "\n"

\* The reset at the end of generateDailySummary: byExtension, the git
\* counters and the focus data.
Reset(data) ==
  [data EXCEPT !.fileChanges.byExtension = <<>>,
               !.git = [commits |-> 0, pushes |-> 0, pulls |-> 0],
               !.focus = [sessions |-> <<>>, totalDuration |-> 0]]

\* generateDailySummary: the notification it publishes and the data it leaves.
GenerateDailySummary(data) ==
  [published |-> << NotificationEvent("info", SummaryText(data),
                                      "notification.insights", "Insights") >>,
   data |-> Reset(data)]

\* The early return of a setupInsights that collects whatever the
\* configuration says.
CollectsAlways(config) == TRUE

\* if (!config.insights.collectStats) return
Collects(config) == config.insights.collectStats

\* The check of an hourly timer that summarises at every hour.
IsSummaryHourAlways(hour) == TRUE

\* now.getHours() === 18
IsSummaryHour(hour) == hour = 18

\* setupInsights: reads CONFIG_FILE; unless collection is off it creates the
\* data, subscribes the three handlers and, with dailySummary on, starts the
\* hourly interval.
SetupInsights ==
  /\ insightsStatus = "off"
  /\ insightsStatus' = IF Collects(configFile) THEN "collecting" ELSE "disabled"
  /\ insightsData' = EmptyInsights
  /\ insightsTimers' =
       IF Collects(configFile) /\ configFile.insights.dailySummary THEN 1 ELSE 0
  /\ fileSeen' = 0
  /\ UNCHANGED <<insightsLast, insightsCount, hoursPassed, weekday, configFile, autoVars,
                 gateState, gateInbox, pubCount, clockVars, focusVars, producerVars, configure>>

\* The focus command with 0 typed at the duration prompt publishes a
\* focus.started of duration 0.
ActivityEvents ==
  { FileEvent("file.modify", FilePayload(path, "modify", Extension(path), 10)) :
      path \in {"/proj/src/a.ts", "/proj/README.md", "/proj/notes."} }
  \cup { FocusStateEvent("focus.started", "focus", DurationMs("25")),
         FocusStateEvent("focus.started", "focus", DurationMs("0")),
         FocusEndedEvent }
  \cup { GitEvent("git.commit", CommitPayload("fix bug", "main", "a1")),
         GitEvent("git.checkout", CheckoutPayload("dev")),
         GitEvent("git.push", [operation |-> "push", branch |-> "main"]) }

\* A producer publishes an activity event: the broker hands it to the
\* aggregator's handler when setupInsights has subscribed one.
PublishActivity ==
  /\ insightsCount < MaxActivity
  /\ insightsCount' = insightsCount + 1
  /\ \E event \in ActivityEvents :
       /\ insightsLast' = [kind |-> "event", event |-> event,
                           delivered |-> insightsStatus = "collecting"]
       /\ insightsData' =
            IF insightsStatus = "collecting"
              THEN Observe(insightsData, event, now.h, weekday)
              ELSE insightsData
       /\ fileSeen' =
            IF insightsStatus = "collecting" /\ event.topic = "file.changes"
              THEN fileSeen + 1 ELSE fileSeen
  /\ UNCHANGED <<insightsStatus, insightsTimers, hoursPassed, weekday, configFile,
                 autoVars, gateState, gateInbox, pubCount, clockVars, focusVars,
                 producerVars, configure>>

Weekdays ==
  << "Monday", "Tuesday", "Wednesday", "Thursday", "Friday", "Saturday", "Sunday" >>

NextDay(day) ==
  LET i == CHOOSE k \in 1..7 : Weekdays[k] = day IN Weekdays[(i % 7) + 1]

\* An hour of wall-clock time passes; the interval of setupInsights, if there
\* is one, runs its check.
HourPasses ==
  /\ insightsStatus # "off"
  /\ hoursPassed < MaxHours
  /\ hoursPassed' = hoursPassed + 1
  /\ now' = Time((now.h + 1) % 24, now.m)
  /\ weekday' = IF now.h = 23 THEN NextDay(weekday) ELSE weekday
  /\ IF insightsTimers > 0
       THEN LET summary == GenerateDailySummary(insightsData)
            IN IF IsSummaryHour(now'.h)
                 THEN /\ insightsLast' = [kind |-> "check", hour |-> now'.h,
                                          before |-> insightsData,
                                          published |-> summary.published]
                      /\ insightsData' = summary.data
                      /\ fileSeen' = 0
                      /\ gateInbox' = gateInbox \o GateDeliveries(summary.published, gateUp)
                 ELSE /\ insightsLast' = [kind |-> "check", hour |-> now'.h,
                                          before |-> insightsData, published |-> <<>>]
                      /\ UNCHANGED <<insightsData, gateInbox, fileSeen>>
       ELSE /\ insightsLast' = [kind |-> "hour", hour |-> now'.h]
            /\ UNCHANGED <<insightsData, gateInbox, fileSeen>>
  /\ UNCHANGED <<insightsStatus, insightsTimers, insightsCount, configFile, autoVars,
                 gateState, pubCount, silentResult, focusVars, producerVars, configure>>

InsightsConfigs ==
  { [DefaultConfig EXCEPT !.insights = [collectStats |-> c, dailySummary |-> d]] :
      c \in BOOLEAN, d \in BOOLEAN }

InitInsights ==
  /\ configFile \in InsightsConfigs
  /\ subs = <<>> /\ invs = <<>> /\ evCount = 0 /\ createCount = 0 /\ setupDone = FALSE
  /\ gateUp = FALSE
  /\ gateConfig = DefaultConfig
  /\ inFocusMode = FALSE
  /\ now \in {Time(16, 30), Time(22, 30)}
  /\ gateInbox = <<>>
  /\ gateLast = NoneHandled
  /\ lastFocus = "none"
  /\ pubCount = 0
  /\ silentResult = NotChecked
  /\ togglePc = "idle" /\ toggleCount = 0 /\ timers = 0
  /\ focusStarted = 0 /\ focusEnded = 0 /\ focusLog = <<>>
  /\ ProducersIdle
  /\ InsightsIdle
  /\ ConfigureIdle

NextInsights ==
  \/ SetupInsights
  \/ PublishActivity
  \/ HourPasses

SpecInsights == InitInsights /\ [][NextInsights]_vars

(***************************************************************************)
(* Properties of the insights aggregator.                                  *)
(***************************************************************************)
\* C21: with insights.collectStats false, setupInsights subscribes nothing
\* and starts no timer: whatever events are published and however many hours
\* pass, every counter stays as created, no hourly check runs and no summary
\* is published.
C21_DisabledAggregatorDoesNothing ==
  (insightsStatus # "off" /\ ~configFile.insights.collectStats) =>
    /\ insightsData = EmptyInsights
    /\ insightsTimers = 0
    /\ insightsLast.kind # "check"
    /\ insightsLast.kind = "event" => ~insightsLast.delivered

\* Collection is off and dailySummary on; an event has been published and
\* the clock has reached 18 h.
C21_Witness ==
  /\ insightsStatus = "disabled"
  /\ configFile.insights.dailySummary
  /\ insightsCount >= 1
  /\ insightsLast.kind = "hour"
  /\ insightsLast.hour = 18

\* C22: right after a daily summary is emitted every counter is zero or
\* empty: byExtension, byHour, byDay, sessions, totalDuration, commits,
\* pushes and pulls.
C22_SummaryResetsEveryCounter ==
  (insightsLast.kind = "check" /\ insightsLast.published # <<>>) =>
    insightsData = EmptyInsights

\* C23: with daily summary enabled the collecting aggregator holds one
\* hourly timer and checks at every hour; a check publishes one summary
\* notification iff the hour is 18; with dailySummary false no check ever
\* runs and no summary is published.
C23_SummaryOnlyAtEighteen ==
  /\ (insightsStatus = "collecting" /\ configFile.insights.dailySummary) =>
       /\ insightsTimers = 1
       /\ insightsLast.kind # "hour"
  /\ insightsLast.kind = "check" =>
       /\ insightsLast.published # <<>> <=> insightsLast.hour = 18
       /\ insightsLast.published # <<>> =>
            insightsLast.published = GenerateDailySummary(insightsLast.before).published
  /\ ~configFile.insights.dailySummary =>
       /\ insightsTimers = 0
       /\ insightsLast.kind # "check"

\* The check at 18 h published a summary of counted activity; the check at
\* 19 h, an hour later, published none.
C23_Witness ==
  /\ insightsLast.kind = "check"
  /\ insightsLast.hour = 19
  /\ insightsLast.published = <<>>
  /\ insightsLast.before.fileChanges.byHour # <<>>
  /\ insightsLast.before.fileChanges.byExtension = <<>>

\* C35: the File Changes total of a daily summary is the number of
\* file-change events the aggregator took since the summary before it, or
\* since setupInsights, events with the empty extension included.
C35_FileChangesTotalCountsEveryEvent ==
  [][(insightsLast'.kind = "check" /\ insightsLast' # insightsLast
        /\ insightsLast'.published # <<>>) =>
       Includes(insightsLast'.published[1].payload.message,
                "File Changes: " \o NumStr(fileSeen) \o "\n")]_vars

(***************************************************************************)
(* The aggregator next to the gate: the daily summary is a notification    *)
(* the gate may suppress.                                                  *)
(***************************************************************************)
\* setupNotifications and setupInsights ran two hours ago, with collectStats
\* and dailySummary on; nothing was published since; it is half past five.
InitDigest ==
  /\ configFile \in { [DefaultConfig EXCEPT !.focusMode = f] : f \in BOOLEAN }
  /\ subs = <<>> /\ invs = <<>> /\ evCount = 0 /\ createCount = 0 /\ setupDone = FALSE
  /\ gateUp = TRUE
  /\ gateConfig = configFile
  /\ inFocusMode = configFile.focusMode
  /\ now = Time(17, 30)
  /\ gateInbox = <<>>
  /\ gateLast = NoneHandled
  /\ lastFocus = "none"
  /\ pubCount = 0
  /\ silentResult = NotChecked
  /\ togglePc = "idle" /\ toggleCount = 0 /\ timers = 0
  /\ focusStarted = 0 /\ focusEnded = 0 /\ focusLog = <<>>
  /\ ProducersIdle
  /\ ConfigureIdle
  /\ insightsStatus = "collecting" /\ insightsData = EmptyInsights /\ insightsTimers = 1
  /\ insightsLast = NothingYet /\ insightsCount = 0 /\ hoursPassed = 2
  /\ weekday = "Monday" /\ fileSeen = 0

NextDigest ==
  \/ PublishActivity
  \/ HourPasses
  \/ GateNotification

SpecDigest == InitDigest /\ [][NextDigest]_vars

====
